---- MODULE Spec2Model ----
(***************************************************************************)
(* Model of the MIDI1.0 serial protocol engine of midi1_ble_human_bpm:     *)
(* the byte-at-a-time receive parser (midi1_serial_receiveparser) with     *)
(* running status, and the transmit encoder (midi1_serial_note_on, ...)    *)
(* with running-status elision (midi1_need_status).                        *)
(***************************************************************************)
EXTENDS Integers, Sequences, FiniteSets, TLC

(***************************************************************************)
(* Bounds of the model: the byte alphabet fed to the parser and the        *)
(* saturation point of the history counter.                                *)
(***************************************************************************)
MaxChan == 0
MaxData == 1
HistCap == 4
\* transmit side: the uptime at which midi1_serial_init runs, the number of
\* clock advances, and the length of a run of sends of one status
BootTime == 100
MaxAdvance == 2
MaxRun == 17
\* block averager: the number of samples added after init
MaxAdds == 97
\* clock measurer: the number of pulses, and of inits after the first
MaxPulses == 51
MaxReinit == 1
\* PLL: the number of intervals processed
MaxPllSteps == 24
\* PLL: the length of a run of one interval
MaxPllRun == 400
\* the capacity of the byte queue (MSGQ_SIZE, a Kconfig value)
MsgqSize == 2
\* the number of bytes the UART delivers
MaxReceived == 6

(***************************************************************************)
(* Constants of midi1.h                                                    *)
(***************************************************************************)
CHANNEL_VOICE_MASK == 128
SYSTEM_REALTIME_MASK == 248
SYSTEM_COMMON_MASK == 240
SYSTEM_EXCLUSIVE_START == 240
SYSTEM_TUNE_REQUEST == 246
SYSTEM_EXCLUSIVE_END == 247
C_NOTE_OFF == 128
C_NOTE_ON == 144
C_POLYPHONIC_AFTERTOUCH == 160
C_CONTROL_CHANGE == 176
C_PROGRAM_CHANGE == 192
C_CHANNEL_AFTERTOUCH == 208
C_PITCH_WHEEL == 224
PITCHWHEEL_MAX == 16384
\* CONFIG_MIDI1_SERIAL_RUNNING_STATUS_TIMEOUT_MS and
\* CONFIG_MIDI1_SERIAL_RUNNING_STATUS_REPEAT, at their defaults
RUNSTAT_TMOUT == 300
RUNSTAT_TIMES == 16

(***************************************************************************)
(* uint8_t bit operations, computed bit by bit.                            *)
(***************************************************************************)
RECURSIVE BitAnd(_, _, _)
BitAnd(a, b, n) ==
    IF n = 0 THEN 0
    ELSE (IF a % 2 = 1 /\ b % 2 = 1 THEN 1 ELSE 0)
         + 2 * BitAnd(a \div 2, b \div 2, n - 1)

\* a & b on uint8_t, tabulated once
And8Table == [p \in (0..255) \X (0..255) |-> BitAnd(p[1], p[2], 8)]

And8(a, b) == And8Table[<<a, b>>]

Not8(a) == 255 - a

(***************************************************************************)
(* The bytes the model feeds to the parser: every channel-voice kind on    *)
(* the channels 0..MaxChan and 15; the system-common bytes 0xF0..0xF3,     *)
(* 0xF6 and 0xF7 (0xF4 and 0xF5 take the branches of 0xF1); the realtime   *)
(* bytes 0xF8 and 0xFF; and the data bytes 0..MaxData and 127.             *)
(***************************************************************************)
Channels == (0..MaxChan) \cup {15}

VoiceKinds ==
    {C_NOTE_OFF, C_NOTE_ON, C_POLYPHONIC_AFTERTOUCH, C_CONTROL_CHANGE,
     C_PROGRAM_CHANGE, C_CHANNEL_AFTERTOUCH, C_PITCH_WHEEL}

VoiceStatusBytes == {k + ch : k \in VoiceKinds, ch \in Channels}

SystemBytes == {240, 241, 242, 243, 246, 247, 248, 255}

DataBytes == (0..MaxData) \cup {127}

RxBytes == VoiceStatusBytes \cup SystemBytes \cup DataBytes

VARIABLES
    \* struct midi1_serial_data, RX parser state
    running_status_rx, third_byte_flag, midi_c2, midi_c3, in_sysex,
    \* the callbacks invoked by the last call of the parser, in order
    ev,
    \* the byte the last call of the parser consumed (-1: none yet)
    lastc,
    \* history of the consumed stream: the most recent non-realtime status
    \* byte (0: none), the last two data bytes consumed since then, and the
    \* number of data bytes consumed since then (saturating, parity kept)
    h_status, h_data, h_n,
    \* history: a status byte 0xF1..0xF7 has been consumed and no
    \* channel-voice status byte since
    h_common,
    \* history: the most recent non-realtime status byte was consumed while
    \* a first data byte was pending or a sysex stream was open
    h_cut,
    \* struct midi1_serial_data, cb: the callback table, one handler a member
    cb,
    \* what the last call of midi1_serial_register_callbacks returned
    cb_ret

rxvars ==
    <<running_status_rx, third_byte_flag, midi_c2, midi_c3, in_sysex,
      ev, lastc, h_status, h_data, h_n, h_common, h_cut, cb, cb_ret>>

VARIABLES
    \* struct midi1_serial_data, TX running status
    running_status_tx, running_status_tx_count, last_status_tx_time,
    \* the kernel's 64-bit millisecond uptime, k_uptime_get()
    uptime,
    \* the bytes the last call wrote with uart_poll_out, in order
    tx,
    \* the last call: its function and arguments
    call,
    \* history of the sends: the uptime at the entry of the send that last
    \* wrote a status byte, the status of the previous accepted send, the
    \* position of the last accepted send in its run of equal statuses,
    \* whether every later send of that run was made within the timeout
    \* of the last status byte, the number of accepted sends since the last
    \* status byte, and the number of clock advances so far
    g_statusAt, g_prev, g_pos, g_inwin, g_nostatus, g_adv

txvars ==
    <<running_status_tx, running_status_tx_count, last_status_tx_time,
      uptime, tx, call, g_statusAt, g_prev, g_pos, g_inwin, g_nostatus,
      g_adv>>

VARIABLES
    \* struct midi1_blockavg
    buf, sum, index, count,
    \* history of the averager: the samples added since init that a window
    \* of MIDI1_BLOCKAVG_SIZE holds, oldest first, and the number of
    \* samples added since init
    g_win, g_n

avgvars == <<buf, sum, index, count, g_win, g_n>>

VARIABLES
    \* struct midi1_clock_meas_cntr_data (its midi1_blockavg is buf, sum,
    \* index, count above)
    last_ts_ticks, scaled_bpm, last_interval_ticks, valid, clock_freq,
    count_up, last_tick_timestamp_ticks,
    \* the program has stopped in a division by zero
    halted,
    \* the value of the free-running hardware counter at its last read
    counter,
    \* the last operation on the measurer: "boot" (none yet), "init",
    \* "pulse"
    m_op,
    \* history of the measurer: the ticks that really passed between the
    \* last two reads of the counter, the number of pulses and of inits
    g_e, g_pulses, g_inits

measvars ==
    <<last_ts_ticks, scaled_bpm, last_interval_ticks, valid, clock_freq,
      count_up, last_tick_timestamp_ticks, halted, counter, m_op, g_e,
      g_pulses, g_inits>>

clkvars == <<avgvars, measvars>>

VARIABLES
    \* struct midi1_pll_data (field k is pll_k, clock_freq is
    \* pll_clock_freq); a 32-bit field holds the number its bits denote as
    \* an int32_t
    pll_k, gain, tracking_g, nominal_interval_ticks, internal_interval_ticks,
    filtered_error, pll_clock_freq,
    \* the last operation on the PLL: "boot" (none yet), "init", "process"
    p_op,
    \* history of the PLL: the interval last passed to
    \* midi1_pll_process_interval and the number of such calls
    g_m, g_steps

pllvars ==
    <<pll_k, gain, tracking_g, nominal_interval_ticks,
      internal_interval_ticks, filtered_error, pll_clock_freq, p_op, g_m,
      g_steps>>

VARIABLES
    \* model.c: the tempo model g_model, and the owner of the mutex
    \* g_model_lock ("none" when it is free)
    g_model, g_model_lock,
    \* per thread: the model function it is in (op), its position in it
    \* (pc, 0 when in none) and the arguments it was called with
    th,
    \* the *out of the thread in model_get
    get_out

modvars == <<g_model, g_model_lock, th, get_out>>

VARIABLES
    \* the message queue msgq of struct midi1_serial_data: the bytes in
    \* it, oldest first
    msgq,
    \* history: the bytes the UART has delivered to the ISR, and the bytes
    \* midi1_serial_receiveparser has taken from the queue
    g_received, g_consumed

qvars == <<msgq, g_received, g_consumed>>

VARIABLES
    \* the serial line from the transmitter back to the receive parser: the
    \* bytes written by the last send that the parser has not consumed yet
    wire,
    \* history of the line: the callback the last send stands for, and the
    \* callbacks the parser has invoked on the bytes of that send so far
    g_want, g_got

loopvars == <<wire, g_want, g_got>>

vars == <<rxvars, txvars, clkvars, pllvars, modvars, qvars, loopvars>>

(***************************************************************************)
(* The RX fields of struct midi1_serial_data as one record.                *)
(***************************************************************************)
RxData ==
    [running_status_rx |-> running_status_rx,
     third_byte_flag |-> third_byte_flag,
     midi_c2 |-> midi_c2,
     midi_c3 |-> midi_c3,
     in_sysex |-> in_sysex]

(***************************************************************************)
(* midi1_serial_receiveparser, branch by branch.  Each branch yields the   *)
(* new RX state d and the callbacks out it invokes.                        *)
(***************************************************************************)

\* mutant: a realtime byte drops a pending first data byte
RxRealtime_ResetFlag(d, c) ==
    [d |-> [d EXCEPT !.third_byte_flag = 0], out |-> << <<"realtime", c>> >>]

\* c >= 0xF8: the realtime callback, nothing else
RxRealtime(d, c) == [d |-> d, out |-> << <<"realtime", c>> >>]

\* a status byte 0x80..0xF7, after the reset of in_sysex, running status
\* and third_byte_flag: tune request, sysex start, sysex end, any other
RxStatusDispatch(d1, c) ==
    IF c = SYSTEM_TUNE_REQUEST
    THEN [d |-> [d1 EXCEPT !.midi_c2 = c], out |-> << >>]
    ELSE IF c = SYSTEM_EXCLUSIVE_START
    THEN [d |-> [d1 EXCEPT !.in_sysex = TRUE],
          out |-> << <<"sysex_start">> >>]
    ELSE IF c = SYSTEM_EXCLUSIVE_END
    THEN [d |-> [d1 EXCEPT !.in_sysex = FALSE],
          out |-> << <<"sysex_stop">> >>]
    ELSE [d |-> d1, out |-> << >>]

\* mutant: a status byte leaves a pending first data byte pending
RxStatus_KeepFlag(d, c) ==
    RxStatusDispatch([d EXCEPT !.in_sysex = FALSE,
                               !.running_status_rx = c], c)

\* mutant: a status byte inside sysex does not end the sysex stream
RxStatus_KeepSysex(d, c) ==
    RxStatusDispatch([d EXCEPT !.running_status_rx = c,
                               !.third_byte_flag = 0], c)

\* a status byte 0x80..0xF7
RxStatus(d, c) ==
    RxStatusDispatch([d EXCEPT !.in_sysex = FALSE,
                               !.running_status_rx = c,
                               !.third_byte_flag = 0], c)

\* a data byte while in_sysex
RxSysexData(d, c) == [d |-> d, out |-> << <<"sysex_data", c>> >>]

\* the callback of a complete message: running status rs, data c2 and c3
RxDispatch(rs, c2, c3) ==
    LET common == And8(rs, SYSTEM_COMMON_MASK)
        chan == And8(rs, Not8(SYSTEM_COMMON_MASK))
        cb3(k) == << <<k, chan, c2, c3>> >>
        cb2(k) == << <<k, chan, c2>> >>
    IN  IF common = C_NOTE_ON
        THEN (IF c3 = 0 THEN cb3("note_off") ELSE cb3("note_on"))
        ELSE IF common = C_NOTE_OFF THEN cb3("note_off")
        ELSE IF common = C_PITCH_WHEEL THEN cb3("pitchwheel")
        ELSE IF common = C_PROGRAM_CHANGE THEN cb2("program_change")
        ELSE IF common = C_POLYPHONIC_AFTERTOUCH THEN cb3("poly_aftertouch")
        ELSE IF common = C_CHANNEL_AFTERTOUCH THEN cb2("channel_aftertouch")
        ELSE IF common = C_CONTROL_CHANGE THEN cb3("control_change")
        ELSE << >>

\* mutant: the third byte does not clear third_byte_flag
RxThirdByte_KeepFlag(d, c) ==
    [d |-> [d EXCEPT !.midi_c3 = c],
     out |-> RxDispatch(d.running_status_rx, d.midi_c2, c)]

\* mutant: a Note On with velocity 0 is delivered as note_on
RxThirdByte_NoZeroVelocity(d, c) ==
    [d |-> [d EXCEPT !.third_byte_flag = 0, !.midi_c3 = c],
     out |-> IF And8(d.running_status_rx, SYSTEM_COMMON_MASK) = C_NOTE_ON
             THEN << <<"note_on",
                       And8(d.running_status_rx, Not8(SYSTEM_COMMON_MASK)),
                       d.midi_c2, c>> >>
             ELSE RxDispatch(d.running_status_rx, d.midi_c2, c)]

\* a data byte while third_byte_flag == 1: the message is complete
RxThirdByte(d, c) ==
    LET d1 == [d EXCEPT !.third_byte_flag = 0, !.midi_c3 = c]
    IN  [d |-> d1,
         out |-> RxDispatch(d1.running_status_rx, d1.midi_c2, d1.midi_c3)]

\* mutant: a data byte without running status is stored in midi_c2
RxSecondByte_StoreAlways(d, c) ==
    LET rs == d.running_status_rx
    IN  [d |->
            IF rs = 0 THEN [d EXCEPT !.midi_c2 = c]
            ELSE IF rs < 192 \/ (rs >= 224 /\ rs < 240)
            THEN [d EXCEPT !.third_byte_flag = 1, !.midi_c2 = c]
            ELSE IF rs < 224
            THEN [d EXCEPT !.midi_c2 = c]
            ELSE IF rs = 242
            THEN [d EXCEPT !.running_status_rx = 0,
                           !.third_byte_flag = 1,
                           !.midi_c2 = c]
            ELSE IF rs = 243
            THEN [d EXCEPT !.running_status_rx = 0, !.midi_c2 = c]
            ELSE [d EXCEPT !.running_status_rx = 0],
         out |-> << >>]

\* mutant: the data byte after 0xF2 leaves the running status in place
RxSecondByte_KeepSongPos(d, c) ==
    LET rs == d.running_status_rx
    IN  [d |->
            IF rs = 0 THEN d
            ELSE IF rs < 192
            THEN [d EXCEPT !.third_byte_flag = 1, !.midi_c2 = c]
            ELSE IF rs < 224
            THEN [d EXCEPT !.midi_c2 = c]
            ELSE IF rs < 240
            THEN [d EXCEPT !.third_byte_flag = 1, !.midi_c2 = c]
            ELSE IF rs = 242
            THEN [d EXCEPT !.third_byte_flag = 1, !.midi_c2 = c]
            ELSE IF rs = 243
            THEN [d EXCEPT !.running_status_rx = 0, !.midi_c2 = c]
            ELSE [d EXCEPT !.running_status_rx = 0],
         out |-> << >>]

\* mutant: the first data byte of a three-byte message is not stored
RxSecondByte_StaleFirst(d, c) ==
    LET rs == d.running_status_rx
    IN  [d |->
            IF rs = 0 THEN d
            ELSE IF rs < 192
            THEN [d EXCEPT !.third_byte_flag = 1]
            ELSE IF rs < 224
            THEN [d EXCEPT !.midi_c2 = c]
            ELSE IF rs < 240
            THEN [d EXCEPT !.third_byte_flag = 1, !.midi_c2 = c]
            ELSE IF rs = 242
            THEN [d EXCEPT !.running_status_rx = 0,
                           !.third_byte_flag = 1,
                           !.midi_c2 = c]
            ELSE IF rs = 243
            THEN [d EXCEPT !.running_status_rx = 0, !.midi_c2 = c]
            ELSE [d EXCEPT !.running_status_rx = 0],
         out |-> << >>]

\* a data byte while third_byte_flag == 0
\* mutant: the data byte after a program change or a channel aftertouch
\* status is held as the first of two
RxSecondByte_AllThreeBytes(d, c) ==
    LET rs == d.running_status_rx
    IN  [d |->
            IF rs = 0 THEN d
            ELSE IF rs < 240
            THEN [d EXCEPT !.third_byte_flag = 1, !.midi_c2 = c]
            ELSE IF rs = 242
            THEN [d EXCEPT !.running_status_rx = 0,
                           !.third_byte_flag = 1,
                           !.midi_c2 = c]
            ELSE IF rs = 243
            THEN [d EXCEPT !.running_status_rx = 0, !.midi_c2 = c]
            ELSE [d EXCEPT !.running_status_rx = 0],
         out |-> << >>]

RxSecondByte(d, c) ==
    LET rs == d.running_status_rx
    IN  [d |->
            IF rs = 0 THEN d
            ELSE IF rs < 192
            THEN [d EXCEPT !.third_byte_flag = 1, !.midi_c2 = c]
            ELSE IF rs < 224
            THEN [d EXCEPT !.midi_c2 = c]
            ELSE IF rs < 240
            THEN [d EXCEPT !.third_byte_flag = 1, !.midi_c2 = c]
            ELSE IF rs = 242
            THEN [d EXCEPT !.running_status_rx = 0,
                           !.third_byte_flag = 1,
                           !.midi_c2 = c]
            ELSE IF rs = 243
            THEN [d EXCEPT !.running_status_rx = 0, !.midi_c2 = c]
            ELSE [d EXCEPT !.running_status_rx = 0],
         out |-> << >>]

midi1_serial_receiveparser(d, c) ==
    IF And8(c, CHANNEL_VOICE_MASK) # 0
    THEN (IF c >= SYSTEM_REALTIME_MASK THEN RxRealtime(d, c)
          ELSE RxStatus(d, c))
    ELSE IF d.in_sysex THEN RxSysexData(d, c)
    ELSE IF d.third_byte_flag = 1 THEN RxThirdByte(d, c)
    ELSE RxSecondByte(d, c)

(***************************************************************************)
(* History of the consumed byte stream, kept beside the parser.            *)
(***************************************************************************)
LastTwo(s) == IF Len(s) > 2 THEN SubSeq(s, Len(s) - 1, Len(s)) ELSE s

HistNext(c) ==
    /\ h_common' = IF c >= SYSTEM_REALTIME_MASK \/ c < CHANNEL_VOICE_MASK
                      \/ c = SYSTEM_EXCLUSIVE_START
                   THEN h_common
                   ELSE c > SYSTEM_EXCLUSIVE_START
    /\ h_cut' = IF c >= SYSTEM_REALTIME_MASK \/ c < CHANNEL_VOICE_MASK
                THEN h_cut
                ELSE third_byte_flag = 1 \/ in_sysex
    /\ IF c >= SYSTEM_REALTIME_MASK
       THEN UNCHANGED <<h_status, h_data, h_n>>
       ELSE IF c >= CHANNEL_VOICE_MASK
       THEN h_status' = c /\ h_data' = << >> /\ h_n' = 0
       ELSE /\ UNCHANGED h_status
            /\ h_data' = LastTwo(Append(h_data, c))
            /\ h_n' = IF h_n >= HistCap THEN h_n - 1 ELSE h_n + 1

(***************************************************************************)
(* struct midi1_serial_callbacks: a table is a record of handlers, one a   *)
(* member.  A handler is NULL, the driver's no-op function for the member  *)
(* (NOOP) or a function of the application.                                *)
(***************************************************************************)
CbMembers ==
    {"note_on", "note_off", "control_change", "pitchwheel", "program_change",
     "channel_aftertouch", "poly_aftertouch", "realtime", "sysex_start",
     "sysex_data", "sysex_stop"}

NULL == "NULL"

NOOP == "midi1_noop"

EINVAL == 22

\* the table of the device data before midi1_serial_init: static storage,
\* every pointer NULL
CbZero == [m \in CbMembers |-> NULL]

\* mutant: the no-op handler of sysex_data is not installed
midi1_serial_init_cb_NoSysexData(t) ==
    [t EXCEPT !.note_on = NOOP, !.note_off = NOOP, !.control_change = NOOP,
              !.realtime = NOOP, !.pitchwheel = NOOP,
              !.program_change = NOOP, !.channel_aftertouch = NOOP,
              !.poly_aftertouch = NOOP, !.sysex_start = NOOP,
              !.sysex_stop = NOOP]

\* midi1_serial_init, the callback table: every member gets its no-op
midi1_serial_init_cb(t) ==
    [t EXCEPT !.note_on = NOOP, !.note_off = NOOP, !.control_change = NOOP,
              !.realtime = NOOP, !.pitchwheel = NOOP,
              !.program_change = NOOP, !.channel_aftertouch = NOOP,
              !.poly_aftertouch = NOOP, !.sysex_start = NOOP,
              !.sysex_data = NOOP, !.sysex_stop = NOOP]

\* mutant: the members of the table are copied without the NULL check
midi1_serial_register_callbacks_Unchecked(d, p) ==
    IF p.null
    THEN [cb |-> d, ret |-> 0 - EINVAL]
    ELSE [cb |-> p.t, ret |-> 0]

\* midi1_serial_register_callbacks: d is data->cb, p the pointer passed,
\* which is null or points to the table p.t
midi1_serial_register_callbacks(d, p) ==
    IF p.null
    THEN [cb |-> d, ret |-> 0 - EINVAL]
    ELSE LET t == p.t IN
         [cb |-> [note_on |->
                      IF t.note_on # NULL THEN t.note_on ELSE d.note_on,
                  note_off |->
                      IF t.note_off # NULL THEN t.note_off ELSE d.note_off,
                  control_change |->
                      IF t.control_change # NULL THEN t.control_change
                      ELSE d.control_change,
                  pitchwheel |->
                      IF t.pitchwheel # NULL THEN t.pitchwheel
                      ELSE d.pitchwheel,
                  program_change |->
                      IF t.program_change # NULL THEN t.program_change
                      ELSE d.program_change,
                  channel_aftertouch |->
                      IF t.channel_aftertouch # NULL THEN t.channel_aftertouch
                      ELSE d.channel_aftertouch,
                  poly_aftertouch |->
                      IF t.poly_aftertouch # NULL THEN t.poly_aftertouch
                      ELSE d.poly_aftertouch,
                  realtime |->
                      IF t.realtime # NULL THEN t.realtime ELSE d.realtime,
                  sysex_start |->
                      IF t.sysex_start # NULL THEN t.sysex_start
                      ELSE d.sysex_start,
                  sysex_data |->
                      IF t.sysex_data # NULL THEN t.sysex_data
                      ELSE d.sysex_data,
                  sysex_stop |->
                      IF t.sysex_stop # NULL THEN t.sysex_stop
                      ELSE d.sysex_stop],
          ret |-> 0]

(***************************************************************************)
(* midi1_serial_init: the RX part of the driver data after construction.   *)
(***************************************************************************)
InitRx ==
    /\ running_status_rx = 0
    /\ third_byte_flag = 0
    /\ midi_c2 = 0
    /\ midi_c3 = 0
    /\ in_sysex = FALSE
    /\ ev = << >>
    /\ lastc = -1
    /\ h_status = 0
    /\ h_data = << >>
    /\ h_n = 0
    /\ h_common = FALSE
    /\ h_cut = FALSE
    /\ cb = midi1_serial_init_cb(CbZero)
    /\ cb_ret = 0

(***************************************************************************)
(* One call of midi1_serial_receiveparser: k_msgq_get hands it the byte c. *)
(***************************************************************************)
\* the parser's work on the byte c it has taken from the queue
ParseByte(c) ==
    \E r \in {midi1_serial_receiveparser(RxData, c)} :
        /\ running_status_rx' = r.d.running_status_rx
        /\ third_byte_flag' = r.d.third_byte_flag
        /\ midi_c2' = r.d.midi_c2
        /\ midi_c3' = r.d.midi_c3
        /\ in_sysex' = r.d.in_sysex
        /\ ev' = r.out
        /\ lastc' = c
        /\ HistNext(c)
        /\ UNCHANGED <<cb, cb_ret>>

\* the parser fed any byte (the queue left aside)
ReceiveParser ==
    \E c \in RxBytes :
        /\ ParseByte(c)
        /\ UNCHANGED <<txvars, clkvars, pllvars, modvars, qvars, loopvars>>

(***************************************************************************)
(* The byte queue between the UART interrupt and the parser thread.  The   *)
(* interrupt handler runs to its end before the thread goes on; it reads   *)
(* the UART FIFO until it is empty (1 or 2 bytes here) and puts each byte  *)
(* with K_NO_WAIT.  The parser thread takes one byte with K_FOREVER, so    *)
(* it waits while the queue is empty, and parses it.                       *)
(***************************************************************************)
\* mutant: a full queue gives up its oldest byte for the new one
k_msgq_put_Overwrite(q, c) ==
    IF Len(q) < MsgqSize THEN Append(q, c) ELSE Append(Tail(q), c)

\* k_msgq_put(&data->msgq, &c, K_NO_WAIT): the queue after it
k_msgq_put(q, c) ==
    IF Len(q) < MsgqSize THEN Append(q, c) ELSE q

RECURSIVE PutAll(_, _)
\* the while loop of the ISR on the bytes of the UART FIFO
PutAll(q, bytes) ==
    IF bytes = << >> THEN q
    ELSE PutAll(k_msgq_put(q, Head(bytes)), Tail(bytes))

\* the bytes on the wire: a note-on status, a key and the timing clock
WireBytes == {144, 60, 248}

FifoBursts == {<<a>> : a \in WireBytes} \cup (WireBytes \X WireBytes)

InitQueue ==
    /\ msgq = << >>
    /\ g_received = << >>
    /\ g_consumed = << >>

midi1_serial_isr_callback ==
    /\ \E bytes \in FifoBursts :
         /\ Len(g_received) + Len(bytes) <= MaxReceived
         /\ msgq' = PutAll(msgq, bytes)
         /\ g_received' = g_received \o bytes
    /\ UNCHANGED g_consumed
    /\ UNCHANGED <<rxvars, txvars, clkvars, pllvars, modvars, loopvars>>

ReceiveParserQueued ==
    /\ msgq # << >>
    /\ ParseByte(Head(msgq))
    /\ msgq' = Tail(msgq)
    /\ g_consumed' = Append(g_consumed, Head(msgq))
    /\ UNCHANGED g_received
    /\ UNCHANGED <<txvars, clkvars, pllvars, modvars, loopvars>>


(***************************************************************************)
(* 32-bit and 64-bit unsigned numbers as tuples of 16-bit limbs, most      *)
(* significant first: uint32_t is <<hi, lo>>, the 64-bit uptime is         *)
(* <<wraps, hi, lo>> with wraps counting the multiples of 2^32.            *)
(***************************************************************************)
Limb == 65536

\* a - b in uint32_t arithmetic (modulo 2^32)
Sub32(a, b) ==
    LET lo == a[2] - b[2]
        borrow == IF lo < 0 THEN 1 ELSE 0
    IN  <<(a[1] - b[1] - borrow) % Limb, lo % Limb>>

\* a > k for a uint32_t a and a constant k below 2^16
Gt32(a, k) == a[1] > 0 \/ a[2] > k

\* the uptime t advanced by d
AddTime(t, d) ==
    LET lo == t[3] + d[3]
        hi == t[2] + d[2] + (lo \div Limb)
    IN  <<t[1] + d[1] + (hi \div Limb), hi % Limb, lo % Limb>>

\* the time from the uptime s to the later uptime t
SubTime(t, s) ==
    LET lo == t[3] - s[3]
        b1 == IF lo < 0 THEN 1 ELSE 0
        hi == t[2] - s[2] - b1
        b2 == IF hi < 0 THEN 1 ELSE 0
    IN  <<t[1] - s[1] - b2, hi % Limb, lo % Limb>>

\* a time d is longer than k milliseconds, k below 2^16
LongerThan(d, k) == d[1] > 0 \/ d[2] > 0 \/ d[3] > k

\* k_uptime_get_32(): the low 32 bits of the uptime
k_uptime_get_32(t) == <<t[2], t[3]>>

\* a | b on uint8_t
Or8(a, b) == a + b - And8(a, b)

(***************************************************************************)
(* The TX fields of struct midi1_serial_data as one record.                *)
(***************************************************************************)
TxData ==
    [running_status_tx |-> running_status_tx,
     running_status_tx_count |-> running_status_tx_count,
     last_status_tx_time |-> last_status_tx_time]

\* mutant: the run-length limit is compared with > instead of >=
midi1_need_status_OffByOne(t, status, now) ==
    \/ Gt32(Sub32(now, t.last_status_tx_time), RUNSTAT_TMOUT)
    \/ status # t.running_status_tx
    \/ t.running_status_tx_count > RUNSTAT_TIMES

\* mutant: a change of status does not call for the status byte
midi1_need_status_NoChange(t, status, now) ==
    \/ Gt32(Sub32(now, t.last_status_tx_time), RUNSTAT_TMOUT)
    \/ t.running_status_tx_count >= RUNSTAT_TIMES

\* mutant: the status is compared with the running status by its kind only
midi1_need_status_KindOnly(t, status, now) ==
    \/ Gt32(Sub32(now, t.last_status_tx_time), RUNSTAT_TMOUT)
    \/ And8(status, SYSTEM_COMMON_MASK)
           # And8(t.running_status_tx, SYSTEM_COMMON_MASK)
    \/ t.running_status_tx_count >= RUNSTAT_TIMES

\* midi1_need_status: now is what its own k_uptime_get_32() returns
midi1_need_status(t, status, now) ==
    \/ Gt32(Sub32(now, t.last_status_tx_time), RUNSTAT_TMOUT)
    \/ status # t.running_status_tx
    \/ t.running_status_tx_count >= RUNSTAT_TIMES

\* the common tail of the channel-voice send functions: the status byte if
\* needed, the data bytes, the counter.  now is k_uptime_get_32() at the
\* entry of the function, now2 the one midi1_need_status reads.
TxChannelVoice(t, status, bytes, now, now2) ==
    IF midi1_need_status(t, status, now2)
    THEN [t |-> [running_status_tx |-> status,
                 running_status_tx_count |-> (0 + 1) % 256,
                 last_status_tx_time |-> now],
          out |-> <<status>> \o bytes]
    ELSE [t |-> [t EXCEPT !.running_status_tx_count =
                              (t.running_status_tx_count + 1) % 256],
          out |-> bytes]

\* mutant: only the first data argument is range-checked
midi1_serial_note_on_KeyOnly(t, channel, key, velocity, now, now2) ==
    IF key > 127
    THEN [t |-> t, out |-> << >>]
    ELSE TxChannelVoice(t, Or8(C_NOTE_ON, And8(channel, 15)),
                        <<key, velocity % 128>>, now, now2)

midi1_serial_note_on(t, channel, key, velocity, now, now2) ==
    IF key > 127 \/ velocity > 127
    THEN [t |-> t, out |-> << >>]
    ELSE TxChannelVoice(t, Or8(C_NOTE_ON, And8(channel, 15)),
                        <<key, velocity>>, now, now2)

midi1_serial_note_off(t, channel, key, velocity, now, now2) ==
    IF key > 127 \/ velocity > 127
    THEN [t |-> t, out |-> << >>]
    ELSE TxChannelVoice(t, Or8(C_NOTE_OFF, And8(channel, 15)),
                        <<key, velocity>>, now, now2)

midi1_serial_control_change(t, channel, controller, val, now, now2) ==
    IF controller > 127 \/ val > 127
    THEN [t |-> t, out |-> << >>]
    ELSE TxChannelVoice(t, Or8(C_CONTROL_CHANGE, And8(channel, 15)),
                        <<controller, val>>, now, now2)

midi1_serial_channelaftertouch(t, channel, val, now, now2) ==
    IF val > 127
    THEN [t |-> t, out |-> << >>]
    ELSE TxChannelVoice(t, Or8(C_CHANNEL_AFTERTOUCH, And8(channel, 15)),
                        <<val>>, now, now2)

\* v & ~(CHANNEL_VOICE_MASK) as passed to uart_poll_out: bit 7 cleared in
\* int arithmetic, then converted to unsigned char
ClearBit7Byte(v) ==
    (v - (IF (v \div 128) % 2 = 1 THEN 128 ELSE 0)) % 256

midi1_serial_pitchwheel(t, channel, val, now, now2) ==
    IF val > PITCHWHEEL_MAX
    THEN [t |-> t, out |-> << >>]
    ELSE TxChannelVoice(t, Or8(C_PITCH_WHEEL, And8(channel, 15)),
                        <<ClearBit7Byte(val), ClearBit7Byte(val \div 128)>>,
                        now, now2)

(***************************************************************************)
(* The calls the model makes: every channel-voice send function, with the  *)
(* channel arguments 0 and 17 (a uint8_t above 15), the data arguments     *)
(* 127 and 128, and the wheel values 8192, 16384 and 16385.                *)
(***************************************************************************)
TxChannels == {0, 17}

TxArgs == {127, 128}

TxWheel == {8192, 16384, 16385}

TxCalls ==
    [fn : {"note_on", "note_off", "control_change"},
     channel : TxChannels, a : TxArgs, b : TxArgs]
    \cup [fn : {"channelaftertouch"}, channel : TxChannels, a : TxArgs,
          b : {0}]
    \cup [fn : {"pitchwheel"}, channel : TxChannels, a : TxWheel, b : {0}]

\* the driver API: the function a call goes to
TxDispatch(t, k, now, now2) ==
    IF k.fn = "note_on"
    THEN midi1_serial_note_on(t, k.channel, k.a, k.b, now, now2)
    ELSE IF k.fn = "note_off"
    THEN midi1_serial_note_off(t, k.channel, k.a, k.b, now, now2)
    ELSE IF k.fn = "control_change"
    THEN midi1_serial_control_change(t, k.channel, k.a, k.b, now, now2)
    ELSE IF k.fn = "channelaftertouch"
    THEN midi1_serial_channelaftertouch(t, k.channel, k.a, now, now2)
    ELSE midi1_serial_pitchwheel(t, k.channel, k.a, now, now2)

(***************************************************************************)
(* What a call asks for, read from its arguments alone.                    *)
(***************************************************************************)
KindByte(fn) ==
    IF fn = "note_on" THEN 144
    ELSE IF fn = "note_off" THEN 128
    ELSE IF fn = "control_change" THEN 176
    ELSE IF fn = "channelaftertouch" THEN 208
    ELSE 224

IsSend(k) ==
    k.fn \in {"note_on", "note_off", "control_change", "channelaftertouch",
              "pitchwheel"}

\* the status byte the call asks for
ReqStatus(k) == KindByte(k.fn) + (k.channel % 16)

\* the data arguments are in range
InRange(k) ==
    IF k.fn = "pitchwheel" THEN k.a <= 16383
    ELSE IF k.fn = "channelaftertouch" THEN k.a <= 127
    ELSE k.a <= 127 /\ k.b <= 127

\* the data bytes of the message
DataOf(k) ==
    IF k.fn = "pitchwheel" THEN <<k.a % 128, (k.a \div 128) % 128>>
    ELSE IF k.fn = "channelaftertouch" THEN <<k.a>>
    ELSE <<k.a, k.b>>

(***************************************************************************)
(* midi1_serial_init, TX part: the running status is cleared and the last  *)
(* status byte is dated 500 ms before now.                                 *)
(***************************************************************************)
InitTx ==
    /\ uptime = <<0, 0, BootTime>>
    /\ running_status_tx = 0
    /\ running_status_tx_count = 0
    /\ last_status_tx_time = Sub32(k_uptime_get_32(uptime), <<0, 500>>)
    /\ tx = << >>
    /\ call = [fn |-> "init", channel |-> 0, a |-> 0, b |-> 0]
    /\ g_statusAt = uptime
    /\ g_prev = 0
    /\ g_pos = 0
    /\ g_inwin = TRUE
    /\ g_nostatus = 0
    /\ g_adv = 0

(***************************************************************************)
(* Time passes between two calls: 300 ms (the timeout), 301 ms, or         *)
(* 2^32 - 300 ms (which takes the 32-bit uptime close to its wrap).        *)
(***************************************************************************)
Delays == {<<0, 0, 300>>, <<0, 0, 301>>, <<0, 65535, 65236>>}

AdvanceTime ==
    /\ g_adv < MaxAdvance
    /\ \E d \in Delays : uptime' = AddTime(uptime, d)
    /\ g_adv' = g_adv + 1
    /\ tx' = << >>
    /\ call' = [fn |-> "advance", channel |-> 0, a |-> 0, b |-> 0]
    /\ UNCHANGED <<running_status_tx, running_status_tx_count,
                   last_status_tx_time, g_statusAt, g_prev, g_pos, g_inwin,
                   g_nostatus>>
    /\ UNCHANGED <<rxvars, clkvars, pllvars, modvars, qvars, loopvars>>

(***************************************************************************)
(* One call of a channel-voice send function, taken from the set calls.    *)
(* The millisecond clock may tick between the function's own               *)
(* k_uptime_get_32() and the one of midi1_need_status (late = 1).          *)
(***************************************************************************)
TxSendOf(calls) ==
    \E k \in calls,
       late \in {l \in {0, 1} : l = 0 \/ g_adv < MaxAdvance} :
      \E up2 \in {AddTime(uptime, <<0, 0, late>>)} :
      \E r \in {TxDispatch(TxData, k, k_uptime_get_32(uptime),
                            k_uptime_get_32(up2))} :
        LET sent == r.out # << >>
            withStatus == sent /\ r.out[1] >= 128
            sameRun == ReqStatus(k) = g_prev
        IN  /\ late = 1 => (sent /\ g_adv < MaxAdvance)
            /\ (sent /\ sameRun) => g_pos < MaxRun
            /\ running_status_tx' = r.t.running_status_tx
            /\ running_status_tx_count' = r.t.running_status_tx_count
            /\ last_status_tx_time' = r.t.last_status_tx_time
            /\ tx' = r.out
            /\ call' = k
            /\ uptime' = up2
            /\ g_adv' = g_adv + late
            /\ g_statusAt' = IF withStatus THEN uptime ELSE g_statusAt
            /\ g_prev' = IF sent THEN ReqStatus(k) ELSE g_prev
            /\ g_pos' = IF ~sent THEN g_pos
                        ELSE IF sameRun THEN g_pos + 1 ELSE 1
            /\ g_inwin' = IF ~sent THEN g_inwin
                          ELSE IF sameRun
                          THEN g_inwin /\ ~LongerThan(SubTime(up2, g_statusAt),
                                                      RUNSTAT_TMOUT)
                          ELSE TRUE
            /\ g_nostatus' = IF ~sent THEN g_nostatus
                             ELSE IF withStatus THEN 0 ELSE g_nostatus + 1
            /\ UNCHANGED <<rxvars, clkvars, pllvars, modvars, qvars, loopvars>>

(***************************************************************************)
(* midi1_serial_init called again at the present uptime: it resets the RX  *)
(* parser state, the TX running status, the callback table and the message *)
(* queue.                                                                  *)
(***************************************************************************)
SerialInit ==
    /\ running_status_rx' = 0
    /\ third_byte_flag' = 0
    /\ midi_c2' = 0
    /\ midi_c3' = 0
    /\ in_sysex' = FALSE
    /\ ev' = << >>
    /\ lastc' = -1
    /\ h_status' = 0
    /\ h_data' = << >>
    /\ h_n' = 0
    /\ h_common' = FALSE
    /\ h_cut' = FALSE
    /\ cb' = midi1_serial_init_cb(cb)
    /\ UNCHANGED cb_ret
    /\ running_status_tx' = 0
    /\ running_status_tx_count' = 0
    /\ last_status_tx_time' = Sub32(k_uptime_get_32(uptime), <<0, 500>>)
    /\ tx' = << >>
    /\ call' = [fn |-> "init", channel |-> 0, a |-> 0, b |-> 0]
    /\ g_statusAt' = uptime
    /\ g_prev' = 0
    /\ g_pos' = 0
    /\ g_inwin' = TRUE
    /\ g_nostatus' = 0
    /\ msgq' = << >>
    /\ g_received' = << >>
    /\ g_consumed' = << >>
    /\ UNCHANGED <<uptime, g_adv>>
    /\ UNCHANGED <<clkvars, pllvars, modvars, loopvars>>

(***************************************************************************)
(* The application registers callbacks.  The pointers it passes: the null  *)
(* pointer; a table with every member NULL; a table with one member set    *)
(* (one of CbSingles); a table with every member but one set (one of       *)
(* CbHoles); a table with every member set.                                *)
(***************************************************************************)
APP == "app_handler"

APP2 == "app_handler2"

CbSingles == {"note_on", "realtime", "sysex_data", "sysex_stop"}

CbHoles == {"note_off", "sysex_stop"}

CbTables ==
    {CbZero, [m \in CbMembers |-> APP2]}
    \cup {[m \in CbMembers |-> IF m = x THEN APP ELSE NULL] : x \in CbSingles}
    \cup {[m \in CbMembers |-> IF m = x THEN NULL ELSE APP2] : x \in CbHoles}

CbPointers ==
    {[null |-> TRUE, t |-> CbZero]}
    \cup {[null |-> FALSE, t |-> x] : x \in CbTables}

RegisterCallbacks ==
    /\ \E p \in CbPointers :
         \E r \in {midi1_serial_register_callbacks(cb, p)} :
           /\ cb' = r.cb
           /\ cb_ret' = r.ret
    /\ UNCHANGED <<running_status_rx, third_byte_flag, midi_c2, midi_c3,
                   in_sysex, ev, lastc, h_status, h_data, h_n, h_common,
                   h_cut>>
    /\ UNCHANGED <<txvars, clkvars, pllvars, modvars, qvars, loopvars>>

\* the bytes the parser is fed between the registrations: note on of
\* channel 0, data bytes, timing clock, sysex start and sysex end
CbBytes == {144, 0, 64, 248, 240, 247}

CbParse ==
    \E c \in CbBytes :
        /\ ParseByte(c)
        /\ UNCHANGED <<txvars, clkvars, pllvars, modvars, qvars, loopvars>>

\* a send with any arguments, made while no message has gone out since the
\* last midi1_serial_init
TxFirstSend == g_prev = 0 /\ TxSendOf(TxCalls)

\* the calls with data in range
InRangeCalls == {k \in TxCalls : InRange(k)}

\* a send with data in range
TxSend == TxSendOf(InRangeCalls)

\* a send with any arguments
TxSendAny == TxSendOf(TxCalls)

(***************************************************************************)
(* The realtime senders: one byte each, no running status involved.        *)
(***************************************************************************)
RT_TIMING_CLOCK == 248
RT_START == 250
RT_CONTINUE == 251
RT_STOP == 252
RT_ACTIVE_SENSING == 254
RT_RESET == 255

midi1_serial_timingclock == <<RT_TIMING_CLOCK>>

midi1_serial_start == <<RT_START>>

midi1_serial_continue == <<RT_CONTINUE>>

midi1_serial_stop == <<RT_STOP>>

midi1_serial_active_sensing == <<RT_ACTIVE_SENSING>>

midi1_serial_reset == <<RT_RESET>>

RealtimeSenders ==
    {"timingclock", "start", "continue", "stop", "active_sensing", "reset"}

RealtimeDispatch(fn) ==
    IF fn = "timingclock" THEN midi1_serial_timingclock
    ELSE IF fn = "start" THEN midi1_serial_start
    ELSE IF fn = "continue" THEN midi1_serial_continue
    ELSE IF fn = "stop" THEN midi1_serial_stop
    ELSE IF fn = "active_sensing" THEN midi1_serial_active_sensing
    ELSE midi1_serial_reset

(***************************************************************************)
(* The system-exclusive senders: midi1_sysex_start and midi1_sysex_stop    *)
(* write one status byte, midi1_sysex_char writes its argument unless bit  *)
(* 7 is set.  None of them reads or writes the TX running status.          *)
(***************************************************************************)
midi1_sysex_start == <<SYSTEM_EXCLUSIVE_START>>

\* mutant: the argument is written as it is
midi1_sysex_char_Unchecked(c) == <<c>>

midi1_sysex_char(c) ==
    IF And8(c, CHANNEL_VOICE_MASK) = 0 THEN <<c>> ELSE << >>

midi1_sysex_stop == <<SYSTEM_EXCLUSIVE_END>>

SysexSenders == {"sysex_start", "sysex_char", "sysex_stop"}

\* the uint8_t arguments midi1_sysex_char is called with
SysexChars == {0, 127, 128, 255}

SysexCalls ==
    [fn : {"sysex_start", "sysex_stop"}, channel : {0}, a : {0}, b : {0}]
    \cup [fn : {"sysex_char"}, channel : {0}, a : SysexChars, b : {0}]

SysexDispatch(k) ==
    IF k.fn = "sysex_start" THEN midi1_sysex_start
    ELSE IF k.fn = "sysex_char" THEN midi1_sysex_char(k.a)
    ELSE midi1_sysex_stop

(***************************************************************************)
(* The transmitter wired back to the receive parser of the same driver.    *)
(* A send writes its bytes to the line; the parser takes them in order,    *)
(* one per call; the next send is made when the line is empty.             *)
(***************************************************************************)
InitLoop ==
    /\ wire = << >>
    /\ g_want = << >>
    /\ g_got = << >>

\* the channel-voice calls made on the line: channels 0 and 15, note_on with
\* velocity 1 and 127, note_off with velocity 0, the ends of the 14-bit
\* wheel range
LoopChannels == {0, 15}

LoopCalls ==
    [fn : {"note_on"}, channel : LoopChannels, a : {0, 127}, b : {1, 127}]
    \cup [fn : {"note_off"}, channel : LoopChannels, a : {60}, b : {0}]
    \cup [fn : {"control_change"}, channel : LoopChannels, a : {127},
          b : {0}]
    \cup [fn : {"pitchwheel"}, channel : LoopChannels, a : {0, 16383},
          b : {0}]

\* the callback a call stands for at the receiving end
HandlerOf(k) ==
    IF k.fn = "pitchwheel"
    THEN <<"pitchwheel", k.channel, k.a % 128, k.a \div 128>>
    ELSE <<k.fn, k.channel, k.a, k.b>>

\* one call of a channel-voice send function, its bytes put on the line
LoopSend ==
    /\ wire = << >>
    /\ \E k \in LoopCalls :
         \E r \in {TxDispatch(TxData, k, k_uptime_get_32(uptime),
                               k_uptime_get_32(uptime))} :
           /\ running_status_tx' = r.t.running_status_tx
           /\ running_status_tx_count' = r.t.running_status_tx_count
           /\ last_status_tx_time' = r.t.last_status_tx_time
           /\ tx' = r.out
           /\ call' = k
           /\ wire' = r.out
           /\ g_want' = <<HandlerOf(k)>>
           /\ g_got' = << >>
    /\ UNCHANGED <<uptime, g_statusAt, g_prev, g_pos, g_inwin, g_nostatus,
                   g_adv>>
    /\ UNCHANGED <<rxvars, clkvars, pllvars, modvars, qvars>>

\* one call of a realtime send function, its byte put on the line
LoopRealtime ==
    /\ wire = << >>
    /\ \E fn \in RealtimeSenders :
         \E out \in {RealtimeDispatch(fn)} :
           /\ tx' = out
           /\ call' = [fn |-> fn, channel |-> 0, a |-> 0, b |-> 0]
           /\ wire' = out
           /\ g_want' = << <<"realtime", out[1]>> >>
           /\ g_got' = << >>
    /\ UNCHANGED <<running_status_tx, running_status_tx_count,
                   last_status_tx_time, uptime, g_statusAt, g_prev, g_pos,
                   g_inwin, g_nostatus, g_adv>>
    /\ UNCHANGED <<rxvars, clkvars, pllvars, modvars, qvars>>

\* the callbacks a system-exclusive call stands for at the receiving end
SysexHandlerOf(k) ==
    IF k.fn = "sysex_start" THEN << <<"sysex_start">> >>
    ELSE IF k.fn = "sysex_stop" THEN << <<"sysex_stop">> >>
    ELSE IF k.a < CHANNEL_VOICE_MASK THEN << <<"sysex_data", k.a>> >>
    ELSE << >>

\* the system-exclusive calls made on the line: a message is
\* midi1_sysex_start, any number of midi1_sysex_char with a data byte, and
\* midi1_sysex_stop
LoopSysexCalls ==
    {k \in SysexCalls :
        /\ k.fn = "sysex_char" => k.a = 127
        /\ k.fn # "sysex_start" => call.fn \in {"sysex_start", "sysex_char"}}

\* one call of a system-exclusive send function, its bytes put on the line
LoopSysex ==
    /\ wire = << >>
    /\ \E k \in LoopSysexCalls :
         \E out \in {SysexDispatch(k)} :
           /\ tx' = out
           /\ call' = k
           /\ wire' = out
           /\ g_want' = SysexHandlerOf(k)
           /\ g_got' = << >>
    /\ UNCHANGED <<running_status_tx, running_status_tx_count,
                   last_status_tx_time, uptime, g_statusAt, g_prev, g_pos,
                   g_inwin, g_nostatus, g_adv>>
    /\ UNCHANGED <<rxvars, clkvars, pllvars, modvars, qvars>>

\* time passes between two sends: more than the running-status timeout
LoopDelay == <<0, 0, RUNSTAT_TMOUT + 1>>

LoopWait ==
    /\ wire = << >>
    /\ g_adv < MaxAdvance
    /\ uptime' = AddTime(uptime, LoopDelay)
    /\ g_adv' = g_adv + 1
    /\ UNCHANGED <<running_status_tx, running_status_tx_count,
                   last_status_tx_time, tx, call, g_statusAt, g_prev, g_pos,
                   g_inwin, g_nostatus>>
    /\ UNCHANGED <<rxvars, clkvars, pllvars, modvars, qvars, loopvars>>

\* the parser takes the next byte from the line
LoopParse ==
    /\ wire # << >>
    /\ ParseByte(Head(wire))
    /\ wire' = Tail(wire)
    /\ g_got' = g_got \o ev'
    /\ UNCHANGED g_want
    /\ UNCHANGED <<txvars, clkvars, pllvars, modvars, qvars>>

(***************************************************************************)
(* The 14-bit senders.  midi1_serial_modwheel is two calls of              *)
(* midi1_serial_control_change, controller CTL_MSB_MODWHEEL with the high  *)
(* half first, then controller CTL_LSB_MODWHEEL with the low half; each    *)
(* call reads the clock itself.                                            *)
(***************************************************************************)
CTL_MSB_MODWHEEL == 1
CTL_LSB_MODWHEEL == 33

\* mutant: the low half is sent first
midi1_serial_modwheel_LsbFirst(t, channel, val, now, now2) ==
    LET r1 == midi1_serial_control_change(t, channel, CTL_LSB_MODWHEEL,
                                          ClearBit7Byte(val), now, now)
        r2 == midi1_serial_control_change(r1.t, channel, CTL_MSB_MODWHEEL,
                                          ClearBit7Byte(val \div 128),
                                          now2, now2)
    IN  [t |-> r2.t, out |-> r1.out \o r2.out]

\* now and now2 are the clock readings of the first and the second call
midi1_serial_modwheel(t, channel, val, now, now2) ==
    LET r1 == midi1_serial_control_change(t, channel, CTL_MSB_MODWHEEL,
                                          ClearBit7Byte(val \div 128),
                                          now, now)
        r2 == midi1_serial_control_change(r1.t, channel, CTL_LSB_MODWHEEL,
                                          ClearBit7Byte(val), now2, now2)
    IN  [t |-> r2.t, out |-> r1.out \o r2.out]

\* the uint16_t values the wheel senders are called with
WheelValues == {200, 8193, 16383, 16384, 65535}

WheelCalls ==
    [fn : {"pitchwheel", "modwheel"}, channel : TxChannels,
     a : WheelValues, b : {0}]

\* one call of midi1_serial_pitchwheel or midi1_serial_modwheel; the
\* millisecond clock may tick between the two halves of a modwheel
WheelSend ==
    \E k \in WheelCalls, late \in {0, 1} :
      \E up2 \in {AddTime(uptime, <<0, 0, late>>)} :
      \E r \in {IF k.fn = "pitchwheel"
                THEN midi1_serial_pitchwheel(TxData, k.channel, k.a,
                                             k_uptime_get_32(uptime),
                                             k_uptime_get_32(up2))
                ELSE midi1_serial_modwheel(TxData, k.channel, k.a,
                                           k_uptime_get_32(uptime),
                                           k_uptime_get_32(up2))} :
        /\ late = 1 => (r.out # << >> /\ g_adv < MaxAdvance)
        /\ running_status_tx' = r.t.running_status_tx
        /\ running_status_tx_count' = r.t.running_status_tx_count
        /\ last_status_tx_time' = r.t.last_status_tx_time
        /\ tx' = r.out
        /\ call' = k
        /\ uptime' = up2
        /\ g_adv' = g_adv + late
        /\ UNCHANGED <<g_statusAt, g_prev, g_pos, g_inwin, g_nostatus>>
        /\ UNCHANGED <<rxvars, clkvars, pllvars, modvars, qvars, loopvars>>

(***************************************************************************)
(* Any call of the transmit API: a channel-voice send, a wheel send or a   *)
(* sysex send, in any order and with any of the arguments above.  The      *)
(* sysex senders read no clock and leave the TX fields alone.              *)
(***************************************************************************)
ApiCalls == TxCalls \cup WheelCalls \cup SysexCalls

ApiDispatch(t, k, now, now2) ==
    IF k.fn \in SysexSenders
    THEN [t |-> t, out |-> SysexDispatch(k)]
    ELSE IF k.fn = "modwheel"
    THEN midi1_serial_modwheel(t, k.channel, k.a, now, now2)
    ELSE TxDispatch(t, k, now, now2)

ApiSend ==
    \E k \in ApiCalls, late \in {0, 1} :
      \E up2 \in {AddTime(uptime, <<0, 0, late>>)} :
      \E r \in {ApiDispatch(TxData, k, k_uptime_get_32(uptime),
                            k_uptime_get_32(up2))} :
        /\ late = 1 => /\ k.fn \notin SysexSenders
                       /\ r.out # << >>
                       /\ g_adv < MaxAdvance
        /\ running_status_tx' = r.t.running_status_tx
        /\ running_status_tx_count' = r.t.running_status_tx_count
        /\ last_status_tx_time' = r.t.last_status_tx_time
        /\ tx' = r.out
        /\ call' = k
        /\ uptime' = up2
        /\ g_adv' = g_adv + late
        /\ UNCHANGED <<g_statusAt, g_prev, g_pos, g_inwin, g_nostatus>>
        /\ UNCHANGED <<rxvars, clkvars, pllvars, modvars, qvars, loopvars>>

(***************************************************************************)
(* midi1_blockavg: the sliding window of MIDI1_BLOCKAVG_SIZE samples.      *)
(* A uint32_t is <<hi, lo>>; index and count stay below 2^16 and are plain *)
(* numbers.                                                                *)
(***************************************************************************)
MIDI1_BLOCKAVG_SIZE == 48

\* a + b and a - b in uint32_t arithmetic (modulo 2^32)
Add32(a, b) ==
    LET lo == a[2] + b[2]
    IN  <<(a[1] + b[1] + (lo \div Limb)) % Limb, lo % Limb>>

\* a / c in uint32_t arithmetic, for a divisor c from 1 to below 2^15
Div32(a, c) ==
    <<a[1] \div c, ((a[1] % c) * Limb + a[2]) \div c>>

Zero32 == <<0, 0>>

\* struct midi1_blockavg as one record
BlkAvg == [buf |-> buf, sum |-> sum, index |-> index, count |-> count]

midi1_blockavg_init ==
    [buf |-> [i \in 0..(MIDI1_BLOCKAVG_SIZE - 1) |-> Zero32],
     sum |-> Zero32, index |-> 0, count |-> 0]

\* mutant: a full buffer is overwritten at the newest place, not the oldest
midi1_blockavg_add_StuckIndex(b, sample) ==
    IF b.count < MIDI1_BLOCKAVG_SIZE
    THEN [b EXCEPT !.buf[b.count] = sample,
                   !.sum = Add32(b.sum, sample),
                   !.count = b.count + 1]
    ELSE LET last == MIDI1_BLOCKAVG_SIZE - 1
         IN  [b EXCEPT !.sum = Add32(Sub32(b.sum, b.buf[last]), sample),
                       !.buf[last] = sample]

midi1_blockavg_add(b, sample) ==
    IF b.count < MIDI1_BLOCKAVG_SIZE
    THEN [b EXCEPT !.buf[b.count] = sample,
                   !.sum = Add32(b.sum, sample),
                   !.count = b.count + 1]
    ELSE [b EXCEPT !.sum = Add32(Sub32(b.sum, b.buf[b.index]), sample),
                   !.buf[b.index] = sample,
                   !.index = IF b.index + 1 >= MIDI1_BLOCKAVG_SIZE
                             THEN 0 ELSE b.index + 1]

midi1_blockavg_average(b) ==
    IF b.count = 0 THEN Zero32 ELSE Div32(b.sum, b.count)

midi1_blockavg_count(b) == b.count

\* the window of the last MIDI1_BLOCKAVG_SIZE samples after one more
WinNext(w, sample) ==
    IF Len(w) < MIDI1_BLOCKAVG_SIZE THEN Append(w, sample)
    ELSE Append(Tail(w), sample)

InitAvg ==
    /\ buf = midi1_blockavg_init.buf
    /\ sum = midi1_blockavg_init.sum
    /\ index = midi1_blockavg_init.index
    /\ count = midi1_blockavg_init.count
    /\ g_win = << >>
    /\ g_n = 0

(***************************************************************************)
(* The samples fed to the averager: a small value, a second small value    *)
(* and 2^32 - 1.  A sample repeats the one before it except at the places  *)
(* FreeSlots (counted in samples added so far), where it is chosen freely: *)
(* the start, the fill-up of the buffer and the wrap of index.             *)
(***************************************************************************)
AvgSamples == {<<0, 100>>, <<0, 196>>, <<65535, 65535>>}

FreeSlots == {0, 1, 47, 48, 49, 95, 96}

BlockAvgAdd ==
    /\ g_n < MaxAdds
    /\ \E sample \in AvgSamples :
         /\ g_n \notin FreeSlots => sample = g_win[Len(g_win)]
         /\ \E b \in {midi1_blockavg_add(BlkAvg, sample)} :
              /\ buf' = b.buf
              /\ sum' = b.sum
              /\ index' = b.index
              /\ count' = b.count
         /\ g_win' = WinNext(g_win, sample)
    /\ g_n' = g_n + 1
    /\ UNCHANGED <<rxvars, txvars, measvars, pllvars, modvars, qvars, loopvars>>

(***************************************************************************)
(* midi1_clock_meas_cntr: the measurement of the incoming MIDI clock with  *)
(* a free-running 32-bit hardware counter.  uint32_t fields are <<hi, lo>>.*)
(***************************************************************************)
BPM_SCALE == 100
US_PER_SECOND == 1000000

\* (60ull * US_PER_SECOND * BPM_SCALE) / 24ull, a 64-bit product in C; 24
\* divides 60 * US_PER_SECOND, so dividing first gives the same number
MIDI1_SCALED_BPM_NUMERATOR == ((60 * US_PER_SECOND) \div 24) * BPM_SCALE

\* counter_get_frequency(): the counters of the model run at 24 MHz
CounterFreqs == {24000000}

\* counter_ticks_to_us(): ticks * 1000000 / frequency in 64 bits, converted
\* to uint32_t by the caller; for a frequency that is a multiple of 1 MHz
\* this is ticks / (frequency / 1000000), which is below 2^32
counter_ticks_to_us(freq, ticks) == Div32(ticks, freq \div US_PER_SECOND)

\* MIDI1_SCALED_BPM_NUMERATOR / interval_us, for interval_us # 0
ScaledBpmOf(us) ==
    LET q == IF us[1] >= 4096 THEN 0
             ELSE MIDI1_SCALED_BPM_NUMERATOR \div (us[1] * Limb + us[2])
    IN  <<q \div Limb, q % Limb>>

\* struct midi1_clock_meas_cntr_data as one record
MeasData ==
    [last_ts_ticks |-> last_ts_ticks,
     scaled_bpm |-> scaled_bpm,
     last_interval_ticks |-> last_interval_ticks,
     valid |-> valid,
     clock_freq |-> clock_freq,
     count_up |-> count_up,
     last_tick_timestamp_ticks |-> last_tick_timestamp_ticks,
     midi1_blockavg |-> BlkAvg,
     halted |-> halted]

\* midi1_clock_meas_cntr_init when the counter device is ready: freq and up
\* are what the counter reports, now is its value right after its start
midi1_clock_meas_cntr_init(d, freq, up, now) ==
    [d EXCEPT !.last_ts_ticks = now,
              !.scaled_bpm = <<0, 12000>>,
              !.last_interval_ticks = Zero32,
              !.valid = FALSE,
              !.clock_freq = freq,
              !.count_up = up,
              !.midi1_blockavg = midi1_blockavg_init]

\* mutant: the interval is computed as for a down-counter in both cases
IntervalTicks_DownOnly(up, last, now) == Sub32(last, now)

\* the interval between two reads of the counter
IntervalTicks(up, last, now) ==
    IF up THEN Sub32(now, last) ELSE Sub32(last, now)

\* the end of midi1_clock_meas_cntr_pulse, once the sample is added: with a
\* full buffer the scaled BPM is computed from the average.  The division
\* by an interval_us of 0 is undefined: the program stops there, or goes
\* on with a quotient of 0 or of all ones.
PulseUpdateBpm(d) ==
    IF midi1_blockavg_count(d.midi1_blockavg) = MIDI1_BLOCKAVG_SIZE
    THEN LET avg_ticks == midi1_blockavg_average(d.midi1_blockavg)
             interval_us == counter_ticks_to_us(d.clock_freq, avg_ticks)
         IN  IF interval_us = Zero32
             THEN {[d EXCEPT !.halted = TRUE],
                   [d EXCEPT !.scaled_bpm = Zero32, !.valid = TRUE],
                   [d EXCEPT !.scaled_bpm = <<65535, 65535>>,
                             !.valid = TRUE]}
             ELSE {[d EXCEPT !.scaled_bpm = ScaledBpmOf(interval_us),
                             !.valid = TRUE]}
    ELSE {d}

\* mutant: an interval of 0 is not rejected
midi1_clock_meas_cntr_pulse_NoZeroCheck(d, now_ticks) ==
    LET d1 == [d EXCEPT !.last_tick_timestamp_ticks = now_ticks]
    IN  IF d.last_ts_ticks = Zero32
        THEN {[d1 EXCEPT !.last_ts_ticks = now_ticks]}
        ELSE LET interval_ticks ==
                     IntervalTicks(d.count_up, d.last_ts_ticks, now_ticks)
                 d3 == [d1 EXCEPT !.last_ts_ticks = now_ticks,
                                  !.last_interval_ticks = interval_ticks]
             IN  PulseUpdateBpm(
                     [d3 EXCEPT !.midi1_blockavg =
                          midi1_blockavg_add(d3.midi1_blockavg,
                                             interval_ticks)])

\* mutant: valid is set with the first sample
midi1_clock_meas_cntr_pulse_ValidAtOnce(d, now_ticks) ==
    {[x EXCEPT !.valid = x.midi1_blockavg.count > 0] :
        x \in midi1_clock_meas_cntr_pulse_NoZeroCheck(d, now_ticks)}

\* midi1_clock_meas_cntr_pulse, now_ticks being the counter value it reads:
\* the set of the states it can leave
midi1_clock_meas_cntr_pulse(d, now_ticks) ==
    LET d1 == [d EXCEPT !.last_tick_timestamp_ticks = now_ticks]
    IN  IF d.last_ts_ticks = Zero32
        THEN {[d1 EXCEPT !.last_ts_ticks = now_ticks]}
        ELSE LET interval_ticks ==
                     IntervalTicks(d.count_up, d.last_ts_ticks, now_ticks)
                 d2 == [d1 EXCEPT !.last_ts_ticks = now_ticks]
                 d3 == [d2 EXCEPT !.last_interval_ticks = interval_ticks]
             IN  IF interval_ticks = Zero32
                 THEN {d2}
                 ELSE IF counter_ticks_to_us(d3.clock_freq,
                                             d3.last_interval_ticks) = Zero32
                 THEN {d3}
                 ELSE PulseUpdateBpm(
                          [d3 EXCEPT !.midi1_blockavg =
                               midi1_blockavg_add(d3.midi1_blockavg,
                                                  interval_ticks)])

midi1_clock_meas_cntr_get_sbpm(d) ==
    IF d.valid THEN d.scaled_bpm ELSE Zero32

midi1_clock_meas_cntr_is_valid(d) == d.valid

\* the measurer's data before the first init: zero-initialised storage
InitMeas ==
    /\ last_ts_ticks = Zero32
    /\ scaled_bpm = Zero32
    /\ last_interval_ticks = Zero32
    /\ valid = FALSE
    /\ clock_freq = 0
    /\ count_up = FALSE
    /\ last_tick_timestamp_ticks = Zero32
    /\ halted = FALSE
    /\ counter = Zero32
    /\ m_op = "boot"
    /\ g_e = Zero32
    /\ g_pulses = 0
    /\ g_inits = 0

\* the fields of d written back to the variables
MeasStore(d) ==
    /\ last_ts_ticks' = d.last_ts_ticks
    /\ scaled_bpm' = d.scaled_bpm
    /\ last_interval_ticks' = d.last_interval_ticks
    /\ valid' = d.valid
    /\ clock_freq' = d.clock_freq
    /\ count_up' = d.count_up
    /\ last_tick_timestamp_ticks' = d.last_tick_timestamp_ticks
    /\ halted' = d.halted
    /\ buf' = d.midi1_blockavg.buf
    /\ sum' = d.midi1_blockavg.sum
    /\ index' = d.midi1_blockavg.index
    /\ count' = d.midi1_blockavg.count

(***************************************************************************)
(* The counter values at init: 0, 1000, and the values 536 and 2400 ticks  *)
(* from the wrap.                                                          *)
(* The ticks between two pulses: 0; 2400 (100 us); 500000 (20833 us, 120   *)
(* BPM); 89478486 (3.7 s; 48 of them sum to 2^32 + 32).  The interval      *)
(* repeats the one before it except at the pulses PulseSlots (counted in   *)
(* pulses since boot), where it is chosen freely.                          *)
(***************************************************************************)
InitCounters == {<<0, 0>>, <<0, 1000>>, <<65535, 65000>>, <<65535, 63136>>}

ElapsedTicks == {<<0, 0>>, <<0, 2400>>, <<7, 41248>>, <<1365, 21846>>}

PulseSlots == {0, 1, 47, 48, 49}

\* midi1_clock_meas_cntr_init: at boot, and again late in the run
MeasInit ==
    /\ ~halted
    /\ \/ m_op = "boot"
       \/ m_op # "boot" /\ g_inits <= MaxReinit /\ g_pulses >= MaxPulses - 1
    /\ \E freq \in CounterFreqs, up \in BOOLEAN, now \in InitCounters :
         /\ m_op # "boot" => (freq = clock_freq /\ up = count_up)
         /\ MeasStore(midi1_clock_meas_cntr_init(MeasData, freq, up, now))
         /\ counter' = now
    /\ m_op' = "init"
    /\ g_e' = Zero32
    /\ g_inits' = g_inits + 1
    /\ g_win' = << >>
    /\ g_n' = 0
    /\ UNCHANGED g_pulses
    /\ UNCHANGED <<rxvars, txvars, pllvars, modvars, qvars, loopvars>>

\* one MIDI clock byte: midi1_clock_meas_cntr_pulse, e ticks after the last
\* read of the counter
MeasPulse ==
    /\ ~halted
    /\ m_op # "boot"
    /\ g_pulses < MaxPulses
    /\ \E e \in ElapsedTicks :
         /\ g_pulses \notin PulseSlots => e = g_e
         /\ \E now \in {IF count_up THEN Add32(counter, e)
                                    ELSE Sub32(counter, e)} :
            \E d \in midi1_clock_meas_cntr_pulse(MeasData, now) :
              /\ MeasStore(d)
              /\ counter' = now
              /\ g_e' = e
              /\ g_n' = IF d.midi1_blockavg # BlkAvg THEN g_n + 1 ELSE g_n
              /\ g_win' = IF d.midi1_blockavg # BlkAvg
                          THEN WinNext(g_win, d.last_interval_ticks)
                          ELSE g_win
    /\ m_op' = "pulse"
    /\ g_pulses' = g_pulses + 1
    /\ UNCHANGED g_inits
    /\ UNCHANGED <<rxvars, txvars, pllvars, modvars, qvars, loopvars>>

(***************************************************************************)
(* midi1_pll: the integer PLL.  An int32_t is the number itself; a         *)
(* uint32_t is held as the int32_t with the same bits, which is what the   *)
(* casts of the code read.  Sums and differences are computed on 16-bit    *)
(* halves and wrap modulo 2^32, as the two's-complement target computes    *)
(* them; divisions truncate toward zero.                                   *)
(***************************************************************************)
MIDI1_PLL_FILTER_K == 4
MIDI1_PLL_GAIN_G == 4
MIDI1_PLL_TRACK_GAIN == 32

\* the int32_t with high half hi (any number, taken modulo 2^16) and low
\* half lo
JoinI32(hi, lo) == (((hi + 32768) % Limb) - 32768) * Limb + lo

AddI32(a, b) ==
    LET lo == (a % Limb) + (b % Limb)
    IN  JoinI32((a \div Limb) + (b \div Limb) + (lo \div Limb), lo % Limb)

SubI32(a, b) ==
    LET lo == (a % Limb) - (b % Limb)
    IN  JoinI32((a \div Limb) - (b \div Limb) + (lo \div Limb), lo % Limb)

\* mutant: the division rounds down
TruncDiv_Floor(a, d) == a \div d

\* a / d in C for an int32_t a and a divisor d > 0
TruncDiv(a, d) ==
    IF a >= 0 \/ a % d = 0 THEN a \div d ELSE (a \div d) + 1

\* struct midi1_pll_data as one record
PllData ==
    [k |-> pll_k, gain |-> gain, tracking_g |-> tracking_g,
     nominal_interval_ticks |-> nominal_interval_ticks,
     internal_interval_ticks |-> internal_interval_ticks,
     filtered_error |-> filtered_error,
     clock_freq |-> pll_clock_freq]

\* mutant: internal_interval_ticks is left at 0
midi1_pll_init_InternalZero(d, sbpm, freq) ==
    [k |-> IF d.k = 0 THEN MIDI1_PLL_FILTER_K ELSE d.k,
     gain |-> IF d.gain = 0 THEN MIDI1_PLL_GAIN_G ELSE d.gain,
     tracking_g |-> IF d.tracking_g = 0 THEN MIDI1_PLL_TRACK_GAIN
                    ELSE d.tracking_g,
     nominal_interval_ticks |-> 503000,
     internal_interval_ticks |-> 0,
     filtered_error |-> 0,
     clock_freq |-> freq]

\* midi1_pll_init; sbpm is ignored by the code
midi1_pll_init(d, sbpm, freq) ==
    [k |-> IF d.k = 0 THEN MIDI1_PLL_FILTER_K ELSE d.k,
     gain |-> IF d.gain = 0 THEN MIDI1_PLL_GAIN_G ELSE d.gain,
     tracking_g |-> IF d.tracking_g = 0 THEN MIDI1_PLL_TRACK_GAIN
                    ELSE d.tracking_g,
     nominal_interval_ticks |-> 503000,
     internal_interval_ticks |-> 503000,
     filtered_error |-> 0,
     clock_freq |-> freq]

\* mutant: an interval of 0 is processed like any other
midi1_pll_process_interval_NoZeroCheck(d, measured_interval_ticks) ==
    LET error == SubI32(measured_interval_ticks, d.internal_interval_ticks)
        fe == AddI32(d.filtered_error,
                     TruncDiv(SubI32(error, d.filtered_error), d.k))
    IN  [d EXCEPT !.filtered_error = fe,
                  !.internal_interval_ticks =
                       AddI32(d.nominal_interval_ticks,
                              TruncDiv(fe, d.gain)),
                  !.nominal_interval_ticks =
                       AddI32(d.nominal_interval_ticks,
                              TruncDiv(fe, d.tracking_g))]

\* mutant: the error is taken with the opposite sign
midi1_pll_process_interval_ErrorSign(d, measured_interval_ticks) ==
    IF measured_interval_ticks = 0
    THEN d
    ELSE LET error == SubI32(d.internal_interval_ticks,
                             measured_interval_ticks)
             fe == AddI32(d.filtered_error,
                          TruncDiv(SubI32(error, d.filtered_error), d.k))
         IN  [d EXCEPT !.filtered_error = fe,
                       !.internal_interval_ticks =
                            AddI32(d.nominal_interval_ticks,
                                   TruncDiv(fe, d.gain)),
                       !.nominal_interval_ticks =
                            AddI32(d.nominal_interval_ticks,
                                   TruncDiv(fe, d.tracking_g))]

\* mutant: the slow loop moves nominal before internal is computed from it
midi1_pll_process_interval_NominalFirst(d, measured_interval_ticks) ==
    IF measured_interval_ticks = 0
    THEN d
    ELSE LET error == SubI32(measured_interval_ticks,
                             d.internal_interval_ticks)
             fe == AddI32(d.filtered_error,
                          TruncDiv(SubI32(error, d.filtered_error), d.k))
             nom == AddI32(d.nominal_interval_ticks,
                           TruncDiv(fe, d.tracking_g))
         IN  [d EXCEPT !.filtered_error = fe,
                       !.internal_interval_ticks =
                            AddI32(nom, TruncDiv(fe, d.gain)),
                       !.nominal_interval_ticks = nom]

\* mutant: the slow loop is left out, nominal stays where it is
midi1_pll_process_interval_NoSlowLoop(d, measured_interval_ticks) ==
    IF measured_interval_ticks = 0
    THEN d
    ELSE LET error == SubI32(measured_interval_ticks,
                             d.internal_interval_ticks)
             fe == AddI32(d.filtered_error,
                          TruncDiv(SubI32(error, d.filtered_error), d.k))
         IN  [d EXCEPT !.filtered_error = fe,
                       !.internal_interval_ticks =
                            AddI32(d.nominal_interval_ticks,
                                   TruncDiv(fe, d.gain))]

midi1_pll_process_interval(d, measured_interval_ticks) ==
    IF measured_interval_ticks = 0
    THEN d
    ELSE LET error == SubI32(measured_interval_ticks,
                             d.internal_interval_ticks)
             fe == AddI32(d.filtered_error,
                          TruncDiv(SubI32(error, d.filtered_error), d.k))
         IN  [d EXCEPT !.filtered_error = fe,
                       !.internal_interval_ticks =
                            AddI32(d.nominal_interval_ticks,
                                   TruncDiv(fe, d.gain)),
                       !.nominal_interval_ticks =
                            AddI32(d.nominal_interval_ticks,
                                   TruncDiv(fe, d.tracking_g))]

\* the PLL data before midi1_pll_init: zero-initialised storage
InitPll ==
    /\ pll_k = 0
    /\ gain = 0
    /\ tracking_g = 0
    /\ nominal_interval_ticks = 0
    /\ internal_interval_ticks = 0
    /\ filtered_error = 0
    /\ pll_clock_freq = 0
    /\ p_op = "boot"
    /\ g_m = 0
    /\ g_steps = 0

PllStore(d) ==
    /\ pll_k' = d.k
    /\ gain' = d.gain
    /\ tracking_g' = d.tracking_g
    /\ nominal_interval_ticks' = d.nominal_interval_ticks
    /\ internal_interval_ticks' = d.internal_interval_ticks
    /\ filtered_error' = d.filtered_error
    /\ pll_clock_freq' = d.clock_freq

(***************************************************************************)
(* The settings the user has put into the data before midi1_pll_init:      *)
(* none (all 0, the defaults are taken); k = 2, gain = 8, tracking 16;     *)
(* k = 8, gain = 4, tracking 4 (a slow loop as fast as the fast one); or   *)
(* tracking 24 alone, as the README's receive thread sets it.              *)
(* The measured intervals: 0; 503000 (the initial nominal value); 504000;  *)
(* 400000; 0x80000000 and 0xFFFFFFFF (as int32_t, -2^31 and -1).  The      *)
(* interval repeats the one before it except at the calls PllSlots.        *)
(***************************************************************************)
PllSettings ==
    {[k |-> 0, gain |-> 0, tracking_g |-> 0],
     [k |-> 2, gain |-> 8, tracking_g |-> 16],
     [k |-> 8, gain |-> 4, tracking_g |-> 4],
     [k |-> 0, gain |-> 0, tracking_g |-> 24]}

PllIntervals == {0, 503000, 504000, 400000, -2147483647 - 1, -1}

PllSlots == {0, 1, 2, 3}

PllInit ==
    /\ p_op = "boot"
    /\ \E u \in PllSettings, freq \in CounterFreqs :
         PllStore(midi1_pll_init(
                      [PllData EXCEPT !.k = u.k, !.gain = u.gain,
                                      !.tracking_g = u.tracking_g],
                      12000, freq))
    /\ p_op' = "init"
    /\ UNCHANGED <<g_m, g_steps>>
    /\ UNCHANGED <<rxvars, txvars, clkvars, modvars, qvars, loopvars>>

\* the int32_t with the bits of a uint32_t held as two 16-bit halves
ToI32(u) == JoinI32(u[1], u[2])

\* realtime_handler of the README after mid_meas->pulse(meas) has taken
\* the measurer from d0 to d: the PLL is fed interval_ticks(meas)
realtime_handler(d0, d, pll) ==
    midi1_pll_process_interval(pll, ToI32(d.last_interval_ticks))

(***************************************************************************)
(* realtime_handler on a timing-clock byte, e ticks after the last read    *)
(* of the counter: the pulse goes to the measurer and the measurer's       *)
(* interval_ticks to the PLL.  A measurer halted by a trap takes the       *)
(* handler with it.                                                        *)
(***************************************************************************)
RealtimeHandler ==
    /\ ~halted
    /\ m_op # "boot"
    /\ p_op # "boot"
    /\ g_pulses < MaxPulses
    /\ \E e \in ElapsedTicks :
         /\ g_pulses \notin PulseSlots => e = g_e
         /\ \E now \in {IF count_up THEN Add32(counter, e)
                                    ELSE Sub32(counter, e)} :
            \E d \in midi1_clock_meas_cntr_pulse(MeasData, now) :
              /\ MeasStore(d)
              /\ counter' = now
              /\ g_e' = e
              /\ g_n' = IF d.midi1_blockavg # BlkAvg THEN g_n + 1 ELSE g_n
              /\ g_win' = IF d.midi1_blockavg # BlkAvg
                          THEN WinNext(g_win, d.last_interval_ticks)
                          ELSE g_win
              /\ PllStore(IF d.halted THEN PllData
                          ELSE realtime_handler(MeasData, d, PllData))
              /\ g_m' = IF d.halted THEN g_m
                        ELSE ToI32(d.last_interval_ticks)
              /\ g_steps' = IF d.halted THEN g_steps ELSE g_steps + 1
    /\ m_op' = "pulse"
    /\ p_op' = "process"
    /\ g_pulses' = g_pulses + 1
    /\ UNCHANGED g_inits
    /\ UNCHANGED <<rxvars, txvars, modvars, qvars, loopvars>>

\* one call of midi1_pll_process_interval, the interval from the set
\* intervals at the calls slots and repeated at the others
PllProcessOf(intervals, slots, max) ==
    /\ p_op # "boot"
    /\ g_steps < max
    /\ \E m \in intervals :
         /\ g_steps \notin slots => m = g_m
         /\ \E r \in {midi1_pll_process_interval(PllData, m)} : PllStore(r)
         /\ g_m' = m
    /\ p_op' = "process"
    /\ g_steps' = g_steps + 1
    /\ UNCHANGED <<rxvars, txvars, clkvars, modvars, qvars, loopvars>>

PllProcess == PllProcessOf(PllIntervals, PllSlots, MaxPllSteps)

(***************************************************************************)
(* A run of one interval: the interval is chosen at the first call and     *)
(* every later call passes it again.  The intervals: 503000 (the initial   *)
(* nominal value), 503010, 504000, 400000, 1006000 and 0xFFFFFFFF (held    *)
(* as the int32_t -1).                                                     *)
(***************************************************************************)
PllRunIntervals == {503000, 503010, 504000, 400000, 1006000, -1}

PllRun == PllProcessOf(PllRunIntervals, {0}, MaxPllRun)

(***************************************************************************)
(* model.c: the tempo model shared by the threads.  A thread in a model    *)
(* function takes g_model_lock, then writes or copies the fields one       *)
(* after the other in the order of the code, then gives the lock back;     *)
(* each of these is a step of its own, and the steps of different threads  *)
(* interleave freely (the threads are preemptible).                        *)
(***************************************************************************)
LED_UNDEF == 0
LED_ON == 1
LED_OFF == 2

ModelFields ==
    <<"hr_connected", "hr_bpm", "meas_sbpm", "pll_sbpm", "last_update_ms",
      "bpm_led_status", "bpm_led_interval">>

\* the fields model_set assigns, in the order of its statements
SetFields ==
    <<"hr_connected", "hr_bpm", "meas_sbpm", "pll_sbpm", "bpm_led_interval",
      "last_update_ms">>

\* the fields an operation touches, in order
OpFields(op) ==
    IF op = "model_set" THEN SetFields
    ELSE IF op = "model_get" THEN ModelFields
    ELSE <<"bpm_led_status">>

\* static storage: all zero
ZeroModel ==
    [hr_connected |-> FALSE, hr_bpm |-> 0, meas_sbpm |-> 0, pll_sbpm |-> 0,
     last_update_ms |-> Zero32, bpm_led_status |-> LED_UNDEF,
     bpm_led_interval |-> 0]

\* mutant: the lock is taken whether it is free or not
k_mutex_lock_NoWait(owner) == TRUE

\* k_mutex_lock(&g_model_lock, K_FOREVER) returns when the mutex is free
k_mutex_lock(owner) == owner = "none"

\* one statement of model_set: the value field f has after it
model_set(m, f, a, now) ==
    IF f = "hr_connected" THEN a.hr_connected
    ELSE IF f = "last_update_ms" THEN now
    ELSE IF a[f] # 0 THEN a[f] ELSE m[f]

Threads == {"ble", "meas", "ui"}

NoArgs == ZeroModel

(***************************************************************************)
(* The calls: the BLE thread reports the connection and the heart rate,    *)
(* the measuring thread the two tempos and the LED interval, with          *)
(* hr_connected = false; it also sets the LED status.  The UI thread       *)
(* reads.  A 0 leaves the field out of the call.                           *)
(***************************************************************************)
ModelCalls(t) ==
    IF t = "ble"
    THEN {[op |-> "model_set",
           args |-> [NoArgs EXCEPT !.hr_connected = c, !.hr_bpm = b]] :
              c \in BOOLEAN, b \in {0, 60, 61}}
    ELSE IF t = "meas"
    THEN {[op |-> "model_set",
           args |-> [NoArgs EXCEPT !.meas_sbpm = b, !.pll_sbpm = b2,
                                   !.bpm_led_interval = i]] :
              b \in {0, 12000}, b2 \in {0, 11900}, i \in {0, 500}}
         \cup {[op |-> "model_set_led_status",
                args |-> [NoArgs EXCEPT !.bpm_led_status = l]] :
                  l \in {LED_ON, LED_OFF}}
    ELSE {[op |-> "model_get", args |-> NoArgs],
          [op |-> "model_get_led_status", args |-> NoArgs]}

\* model_init has run; no thread is in a model function
InitModel ==
    /\ g_model = ZeroModel
    /\ g_model_lock = "none"
    /\ th = [t \in Threads |-> [op |-> "none", pc |-> 0, args |-> NoArgs]]
    /\ get_out = ZeroModel

\* a thread calls a model function and gets the lock
ModelLock ==
    /\ \E t \in Threads :
         /\ th[t].pc = 0
         /\ k_mutex_lock(g_model_lock)
         /\ \E c \in ModelCalls(t) :
              th' = [th EXCEPT ![t] = [op |-> c.op, pc |-> 1,
                                       args |-> c.args]]
         /\ g_model_lock' = t
    /\ UNCHANGED <<g_model, get_out>>
    /\ UNCHANGED <<rxvars, txvars, clkvars, pllvars, qvars, loopvars>>

\* the next statement of the function a thread is in
ModelStep ==
    /\ \E t \in Threads :
         /\ th[t].pc > 0
         /\ th[t].pc <= Len(OpFields(th[t].op))
         /\ LET f == OpFields(th[t].op)[th[t].pc]
                op == th[t].op
            IN  /\ g_model' =
                     IF op = "model_set"
                     THEN [g_model EXCEPT
                              ![f] = model_set(g_model, f, th[t].args,
                                               k_uptime_get_32(uptime))]
                     ELSE IF op = "model_set_led_status"
                     THEN [g_model EXCEPT ![f] = th[t].args[f]]
                     ELSE g_model
                /\ get_out' =
                     IF op \in {"model_get", "model_get_led_status"}
                     THEN [get_out EXCEPT ![f] = g_model[f]]
                     ELSE get_out
         /\ th' = [th EXCEPT ![t].pc = @ + 1]
    /\ UNCHANGED g_model_lock
    /\ UNCHANGED <<rxvars, txvars, clkvars, pllvars, qvars, loopvars>>

\* k_mutex_unlock and return
ModelUnlock ==
    /\ \E t \in Threads :
         /\ th[t].pc > Len(OpFields(th[t].op))
         /\ th' = [th EXCEPT ![t] = [op |-> "none", pc |-> 0,
                                     args |-> NoArgs]]
    /\ g_model_lock' = "none"
    /\ UNCHANGED <<g_model, get_out>>
    /\ UNCHANGED <<rxvars, txvars, clkvars, pllvars, qvars, loopvars>>

Init ==
    /\ InitRx /\ InitTx /\ InitAvg /\ InitMeas /\ InitPll /\ InitModel
    /\ InitQueue /\ InitLoop

\* the receive side on its own
Next == ReceiveParser

Spec == Init /\ [][Next]_vars

\* the transmit side on its own, sends with data in range, time passing
NextTx == AdvanceTime \/ TxSend

SpecTx == Init /\ [][NextTx]_vars

\* the transmit side on its own, sends with any arguments, in quick succession
NextTxAny == TxSendAny

SpecTxAny == Init /\ [][NextTxAny]_vars

\* the 14-bit senders on their own, in quick succession
NextWheel == WheelSend

SpecWheel == Init /\ [][NextWheel]_vars

\* the block averager on its own
NextAvg == BlockAvgAdd

SpecAvg == Init /\ [][NextAvg]_vars

\* the clock measurer on its own
NextMeas == MeasInit \/ MeasPulse

SpecMeas == Init /\ [][NextMeas]_vars

\* the PLL on its own
NextPll == PllInit \/ PllProcess

SpecPll == Init /\ [][NextPll]_vars

\* the PLL fed one interval again and again
NextPllRun == PllInit \/ PllRun

SpecPllRun == Init /\ [][NextPllRun]_vars

\* the same, the caller going on to the end of the run: every timing-clock
\* byte is followed by a call of midi1_pll_process_interval
SpecPllRunLive == Init /\ [][NextPllRun]_vars /\ WF_vars(NextPllRun)

\* any call of the transmit API
NextApi == ApiSend

SpecApi == Init /\ [][NextApi]_vars

\* the driver's callback table: init, registrations and the parser
NextCb == SerialInit \/ RegisterCallbacks \/ CbParse

SpecCb == Init /\ [][NextCb]_vars

\* the threads on the tempo model
NextModel == ModelLock \/ ModelStep \/ ModelUnlock

\* the measurer and the PLL behind realtime_handler
NextHandler == MeasInit \/ PllInit \/ RealtimeHandler

SpecHandler == Init /\ [][NextHandler]_vars

SpecModel == Init /\ [][NextModel]_vars

\* the UART interrupt and the parser thread
NextQueue == midi1_serial_isr_callback \/ ReceiveParserQueued

SpecQueue == Init /\ [][NextQueue]_vars

\* the transmit side from midi1_serial_init, called at any time, to the
\* first message after it
NextTxInit == AdvanceTime \/ SerialInit \/ TxFirstSend

SpecTxInit == Init /\ [][NextTxInit]_vars

\* the transmitter wired back to the receive parser, time passing
NextLoop == LoopWait \/ LoopSend \/ LoopRealtime \/ LoopParse

SpecLoop == Init /\ [][NextLoop]_vars

\* the same with the system-exclusive senders in place of the realtime ones
NextLoopSysex == LoopWait \/ LoopSend \/ LoopSysex \/ LoopParse

SpecLoopSysex == Init /\ [][NextLoopSysex]_vars

(***************************************************************************)
(* Properties of the receive parser, checked under Spec.                   *)
(***************************************************************************)
RxFields == <<running_status_rx, third_byte_flag, midi_c2, midi_c3, in_sysex>>

IsData(c) == c \in 0..127

\* status bytes of the channel-voice messages with two data bytes
ThreeByteStatus(s) == s \in 128..191 \/ s \in 224..239

\* the callback a complete message of status s with second data byte d2 goes to
KindOf(s, d2) ==
    LET k == (s \div 16) * 16
    IN  IF k = 128 THEN "note_off"
        ELSE IF k = 144 THEN (IF d2 = 0 THEN "note_off" ELSE "note_on")
        ELSE IF k = 160 THEN "poly_aftertouch"
        ELSE IF k = 176 THEN "control_change"
        ELSE "pitchwheel"

VoiceCallbacks ==
    {"note_on", "note_off", "control_change", "pitchwheel",
     "poly_aftertouch", "program_change", "channel_aftertouch"}

\* C1: after a three-byte channel-voice status byte S, of the data bytes
\* consumed since S (realtime bytes apart) every odd one invokes no callback
\* and every even one invokes exactly one callback: the one S & 0xF0 selects
\* (a Note On of velocity 0 goes to note_off), with channel S & 0x0F and the
\* last two data bytes, for the first pair and for every later pair.
C1_RunningStatusPairs ==
    (IsData(lastc) /\ ThreeByteStatus(h_status)) =>
        IF h_n % 2 = 1
        THEN ev = << >>
        ELSE ev = << <<KindOf(h_status, h_data[2]), h_status % 16,
                       h_data[1], h_data[2]>> >>

\* a second pair under running status has just been completed
C1_Witness ==
    /\ IsData(lastc)
    /\ ThreeByteStatus(h_status)
    /\ h_n = 4
    /\ Len(ev) = 1

\* C2: a realtime byte consumed in any parser state invokes the realtime
\* callback exactly once with that byte and changes no field of the RX state.
C2_RealtimeTransparent ==
    [][lastc' >= SYSTEM_REALTIME_MASK =>
          /\ ev' = << <<"realtime", lastc'>> >>
          /\ UNCHANGED RxFields]_vars

\* a realtime byte consumed between the two data bytes of a message
C2_Witness ==
    /\ lastc >= SYSTEM_REALTIME_MASK
    /\ third_byte_flag = 1
    /\ h_n = 1
    /\ ev = << <<"realtime", lastc>> >>

\* a realtime byte consumed inside a sysex stream
C2_WitnessSysex == lastc >= SYSTEM_REALTIME_MASK /\ in_sysex /\ h_n > 0

\* C3: every channel-voice callback carries the low nibble of the most recent
\* non-realtime status byte as its channel, and its data bytes are the last
\* data bytes consumed after that status byte.
C3_ChannelOfLatestStatus ==
    \A i \in 1..Len(ev) :
        ev[i][1] \in VoiceCallbacks =>
            /\ h_status \in 128..239
            /\ ev[i][2] = h_status % 16
            /\ Len(ev[i]) = 4 =>
                  /\ Len(h_data) = 2
                  /\ ev[i][3] = h_data[1]
                  /\ ev[i][4] = h_data[2]
            /\ Len(ev[i]) = 3 =>
                  /\ Len(h_data) >= 1
                  /\ ev[i][3] = h_data[Len(h_data)]

\* a channel-voice callback on channel 15
C3_Witness ==
    /\ Len(ev) = 1
    /\ ev[1][1] \in VoiceCallbacks
    /\ ev[1][2] = 15
    /\ h_status % 16 = 15

\* C4: with a Note On running status and the first data byte pending, a data
\* byte 0 invokes note_off(channel, key, 0) and not note_on; a data byte
\* 1..127 invokes note_on(channel, key, velocity) and not note_off.
C4_ZeroVelocityNoteOff ==
    [][(running_status_rx \in 144..159 /\ third_byte_flag = 1
            /\ IsData(lastc')) =>
          IF lastc' = 0
          THEN ev' = << <<"note_off", running_status_rx % 16, midi_c2, 0>> >>
          ELSE ev' = << <<"note_on", running_status_rx % 16, midi_c2,
                          lastc'>> >>]_vars

\* a Note On of velocity 0 has been delivered as note_off
C4_Witness ==
    /\ lastc = 0
    /\ h_status \in 144..159
    /\ h_n = 2
    /\ ev = << <<"note_off", h_status % 16, h_data[1], 0>> >>

\* a Note On of velocity 127 has been delivered as note_on
C4_WitnessNoteOn ==
    /\ lastc = 127
    /\ h_status \in 144..159
    /\ Len(ev) = 1
    /\ ev[1][1] = "note_on"

\* C5: after a Program Change (0xCn) or Channel Aftertouch (0xDn) status
\* byte, every data byte d invokes program_change(n, d) respectively
\* channel_aftertouch(n, d).
C5_SingleDataByteCallback ==
    (IsData(lastc) /\ h_status \in 192..223) =>
        ev = << <<IF h_status < 208 THEN "program_change"
                  ELSE "channel_aftertouch",
                  h_status % 16, lastc>> >>

\* C6: 0xF0 invokes sysex_start and sets in_sysex; a data byte while in_sysex
\* invokes exactly sysex_data(byte) and changes no field of the RX state;
\* 0xF7 invokes sysex_stop and clears in_sysex; and whenever sysex_data is
\* invoked the most recent non-realtime status byte is 0xF0.
C6_SysexFraming ==
    [][/\ lastc' = SYSTEM_EXCLUSIVE_START =>
              (ev' = << <<"sysex_start">> >> /\ in_sysex')
       /\ (in_sysex /\ IsData(lastc')) =>
              (ev' = << <<"sysex_data", lastc'>> >> /\ UNCHANGED RxFields)
       /\ lastc' = SYSTEM_EXCLUSIVE_END =>
              (ev' = << <<"sysex_stop">> >> /\ ~in_sysex')
       /\ (\E i \in 1..Len(ev') : ev'[i][1] = "sysex_data") =>
              h_status' = SYSTEM_EXCLUSIVE_START]_vars

\* a second data byte of a sysex stream has been delivered
C6_Witness ==
    /\ in_sysex
    /\ IsData(lastc)
    /\ h_n = 2
    /\ ev = << <<"sysex_data", lastc>> >>

\* C7: a data byte consumed while running_status_rx == 0, third_byte_flag == 0
\* and in_sysex is false invokes no callback and changes no field of the RX
\* state.
C7_DataWithoutStatusIgnored ==
    [][(running_status_rx = 0 /\ third_byte_flag = 0 /\ ~in_sysex
            /\ IsData(lastc')) =>
          (ev' = << >> /\ UNCHANGED RxFields)]_vars

\* a data byte consumed directly after init, before any status byte
C7_Witness ==
    /\ IsData(lastc)
    /\ h_status = 0
    /\ h_n = 1
    /\ running_status_rx = 0 /\ third_byte_flag = 0 /\ ~in_sysex
    /\ ev = << >>

(***************************************************************************)
(* Properties of the transmit encoder, checked under SpecTx and SpecTxAny. *)
(***************************************************************************)
TxFields == <<running_status_tx, running_status_tx_count, last_status_tx_time>>

\* the last call wrote a status byte first
WroteStatus == tx # << >> /\ tx[1] >= 128

\* what a send does once it is decided whether the status byte is needed
StatusRuleEffect(need) ==
    LET s == ReqStatus(call')
    IN  /\ need =>
              /\ tx' = <<s>> \o DataOf(call')
              /\ running_status_tx' = s
              /\ running_status_tx_count' = 1
              /\ last_status_tx_time' = k_uptime_get_32(uptime)
        /\ ~need =>
              /\ tx' = DataOf(call')
              /\ running_status_tx_count' = running_status_tx_count + 1
              /\ UNCHANGED <<running_status_tx, last_status_tx_time>>

\* C8: a channel-voice send with data in range writes the status byte before
\* the data bytes if and only if (a) more than the timeout has passed since
\* the last status byte was sent, or (b) the status differs from
\* running_status_tx, or (c) running_status_tx_count has reached the run
\* length; otherwise it writes the data bytes only.  With the status byte,
\* running_status_tx is set to it, the counter restarts and
\* last_status_tx_time is set to now; the counter is incremented by one on
\* every send.
C8_StatusRule ==
    [][(IsSend(call') /\ InRange(call')) =>
          StatusRuleEffect(
              \/ LongerThan(SubTime(uptime', g_statusAt), RUNSTAT_TMOUT)
              \/ ReqStatus(call') # running_status_tx
              \/ running_status_tx_count >= RUNSTAT_TIMES)]_vars

\* C8, with the time since the last status byte read off the 32-bit uptime
\* (modulo 2^32 ms): this is what the code does on every send.
C8_StatusRule32 ==
    [][(IsSend(call') /\ InRange(call')) =>
          StatusRuleEffect(
              \/ Gt32(Sub32(k_uptime_get_32(uptime'), last_status_tx_time),
                      RUNSTAT_TMOUT)
              \/ ReqStatus(call') # running_status_tx
              \/ running_status_tx_count >= RUNSTAT_TIMES)]_vars

\* C8, for the sends made less than 2^32 ms after the last status byte
C8_StatusRuleWithinHorizon ==
    [][(IsSend(call') /\ InRange(call')
            /\ SubTime(uptime', g_statusAt)[1] = 0
            /\ g_prev # 0) =>
          StatusRuleEffect(
              \/ LongerThan(SubTime(uptime', g_statusAt), RUNSTAT_TMOUT)
              \/ ReqStatus(call') # running_status_tx
              \/ running_status_tx_count >= RUNSTAT_TIMES)]_vars

\* C9: in a run of consecutive sends of one status, all made within the
\* timeout of the last status byte, the status byte is written with the
\* first message and with every RUNSTAT_TIMES-th message after it and with
\* no other; never more than RUNSTAT_TIMES - 1 messages in a row go out
\* without a status byte.
C9_BoundedResync ==
    /\ (IsSend(call) /\ tx # << >> /\ g_inwin) =>
          (WroteStatus <=> (g_pos - 1) % RUNSTAT_TIMES = 0)
    /\ g_nostatus <= RUNSTAT_TIMES - 1

\* the status byte has been written again with the message RUNSTAT_TIMES
\* after the first of a run within the timeout
C9_Witness ==
    /\ IsSend(call)
    /\ g_inwin
    /\ g_pos = RUNSTAT_TIMES + 1
    /\ WroteStatus

\* the longest stretch without a status byte
C9_WitnessStretch == g_nostatus = RUNSTAT_TIMES - 1 /\ g_inwin

\* C10: a call of note_on, note_off, control_change or channelaftertouch
\* with a data argument above 127 writes no byte and leaves
\* running_status_tx, running_status_tx_count and last_status_tx_time as
\* they were.
C10_OutOfRangeDropped ==
    [][(call'.fn \in {"note_on", "note_off", "control_change",
                      "channelaftertouch"}
            /\ (call'.a > 127 \/ call'.b > 127)) =>
          (tx' = << >> /\ UNCHANGED TxFields)]_vars

\* a note_on with the velocity alone out of range has been dropped in the
\* middle of a run
C10_Witness ==
    /\ call.fn = "note_on"
    /\ call.a <= 127
    /\ call.b > 127
    /\ tx = << >>
    /\ running_status_tx = 144
    /\ running_status_tx_count = 3

(***************************************************************************)
(* Properties of the 14-bit senders, checked under SpecWheel.              *)
(***************************************************************************)
\* the data bytes (bit 7 clear) among the bytes written
DataBytesOf(out) == SelectSeq(out, LAMBDA b : b < 128)

IsWheel(k) == k.fn \in {"pitchwheel", "modwheel"}

\* C11: midi1_serial_pitchwheel and midi1_serial_modwheel write nothing and
\* change no transmit field for a value outside 0..16383, and write a
\* message for every value inside 0..16383.
C11_WheelRange ==
    [][IsWheel(call') =>
          IF call'.a <= 16383
          THEN tx' # << >>
          ELSE tx' = << >> /\ UNCHANGED TxFields]_vars

\* C12 as stated: for a value v in 0..16383 both senders write the low
\* seven bits before the high seven bits, pitchwheel as the two data bytes
\* of one message, modwheel as the LSB controller message followed by the
\* MSB controller message.
C12_LsbFirstBoth ==
    [][(IsWheel(call') /\ call'.a <= 16383) =>
          LET lsb == call'.a % 128
              msb == (call'.a \div 128) % 128
          IN  IF call'.fn = "pitchwheel"
              THEN DataBytesOf(tx') = <<lsb, msb>>
              ELSE DataBytesOf(tx') =
                       <<CTL_LSB_MODWHEEL, lsb, CTL_MSB_MODWHEEL, msb>>]_vars

\* C12, amended: for a value v in 0..16383 pitchwheel writes the low seven
\* bits then the high seven bits as the two data bytes of one message;
\* modwheel writes the MSB controller message (controller 1, high seven
\* bits) followed by the LSB controller message (controller 33, low seven
\* bits).
C12_WheelByteOrder ==
    [][(IsWheel(call') /\ call'.a <= 16383) =>
          LET lsb == call'.a % 128
              msb == (call'.a \div 128) % 128
          IN  IF call'.fn = "pitchwheel"
              THEN /\ DataBytesOf(tx') = <<lsb, msb>>
                   /\ Len(tx') \in {2, 3}
                   /\ Len(tx') = 3 => tx'[1] = ReqStatus(call')
              ELSE /\ DataBytesOf(tx') =
                         <<CTL_MSB_MODWHEEL, msb, CTL_LSB_MODWHEEL, lsb>>
                   /\ \A i \in 1..Len(tx') :
                         tx'[i] >= 128 =>
                            /\ tx'[i] = C_CONTROL_CHANGE + (call'.channel % 16)
                            /\ i \in {1, Len(tx') - 2}]_vars

\* a modwheel with different halves has gone out in running status, and a
\* pitchwheel with different halves with its status byte
C12_Witness ==
    \/ /\ call.fn = "modwheel"
       /\ call.a = 8193
       /\ tx = <<CTL_MSB_MODWHEEL, 64, CTL_LSB_MODWHEEL, 1>>
    \/ /\ call.fn = "pitchwheel"
       /\ call.a = 200
       /\ tx = <<C_PITCH_WHEEL, 72, 1>>

(***************************************************************************)
(* Properties of the block averager, checked under SpecAvg.                *)
(***************************************************************************)
\* the exact sum of a sequence of uint32_t samples, as <<top, hi, lo>>
RECURSIVE SumLimbs(_, _)
SumLimbs(w, k) == IF w = << >> THEN 0 ELSE w[1][k] + SumLimbs(Tail(w), k)

ExactSum(w) ==
    LET lo == SumLimbs(w, 2)
        hi == SumLimbs(w, 1) + (lo \div Limb)
    IN  <<hi \div Limb, hi % Limb, lo % Limb>>

Min(a, b) == IF a < b THEN a ELSE b

\* C13: after midi1_blockavg_init and n calls of midi1_blockavg_add whose
\* window sum fits in 32 bits, count = min(n, 48) and
\* midi1_blockavg_average returns the sum of the most recent min(n, 48)
\* samples divided by min(n, 48), rounded down (0 when n = 0).
C13_SlidingWindowAverage ==
    LET x == ExactSum(g_win)
        m == Min(g_n, MIDI1_BLOCKAVG_SIZE)
    IN  x[1] = 0 =>
          /\ midi1_blockavg_count(BlkAvg) = m
          /\ Len(g_win) = m
          /\ midi1_blockavg_average(BlkAvg) =
                IF g_n = 0 THEN Zero32 ELSE Div32(<<x[2], x[3]>>, m)

\* 48 samples of 100 followed by a 49th of 196: the average is
\* floor((47 * 100 + 196) / 48) = 102 and count is still 48
C13_Witness ==
    /\ g_n = 49
    /\ g_win = [i \in 1..48 |-> IF i = 48 THEN <<0, 196>> ELSE <<0, 100>>]
    /\ midi1_blockavg_average(BlkAvg) = <<0, 102>>
    /\ count = 48

\* 48 samples of one value give that value
C13_WitnessFull ==
    /\ g_n = 48
    /\ g_win = [i \in 1..48 |-> <<0, 196>>]
    /\ midi1_blockavg_average(BlkAvg) = <<0, 196>>

\* C14: after every midi1_blockavg_add the field sum is the exact sum of
\* the samples in the window (it never wraps modulo 2^32), count <= 48 and
\* index < 48.
C14_SumExact ==
    /\ <<0, sum[1], sum[2]>> = ExactSum(g_win)
    /\ count <= MIDI1_BLOCKAVG_SIZE
    /\ index < MIDI1_BLOCKAVG_SIZE

\* C14 without the exactness of sum: sum is the sum of the window modulo
\* 2^32, count <= 48, index < 48
C14_SumModulo ==
    /\ sum = <<ExactSum(g_win)[2], ExactSum(g_win)[3]>>
    /\ count <= MIDI1_BLOCKAVG_SIZE
    /\ index < MIDI1_BLOCKAVG_SIZE

(***************************************************************************)
(* Properties of the clock measurer, checked under SpecMeas.               *)
(***************************************************************************)
BlkFields == <<buf, sum, index, count>>

\* the step is a call of midi1_clock_meas_cntr_pulse
IsPulseStep == m_op' = "pulse" /\ g_pulses' = g_pulses + 1

C15_WitnessRejected == m_op = "pulse" /\ g_e = Zero32 /\ valid

C15_WitnessReinit == m_op = "init" /\ g_inits = 2 /\ ~valid /\ g_pulses > 48

\* C16: the first call of midi1_clock_meas_cntr_pulse after a successful
\* midi1_clock_meas_cntr_init only records the timestamp: it leaves
\* last_interval_ticks as it is and adds no sample to the block averager.
C16_FirstPulseOnlyTimestamp ==
    [][(m_op = "init" /\ IsPulseStep) =>
          /\ UNCHANGED last_interval_ticks
          /\ UNCHANGED BlkFields
          /\ last_ts_ticks' = counter']_vars

\* C16, for an init at which the counter read 0
C16_FirstPulseAfterZeroRead ==
    [][(m_op = "init" /\ IsPulseStep /\ counter = Zero32) =>
          /\ UNCHANGED last_interval_ticks
          /\ UNCHANGED BlkFields
          /\ last_ts_ticks' = counter']_vars

\* C17: a pulse for which no tick has passed since the previous pulse is
\* ignored: last_interval_ticks, the block averager (buf, sum, index,
\* count), scaled_bpm and valid are unchanged.
C17_ZeroElapsedIgnored ==
    [][(IsPulseStep /\ g_e' = Zero32) =>
          /\ UNCHANGED <<last_interval_ticks, scaled_bpm, valid>>
          /\ UNCHANGED BlkFields]_vars

\* a pulse with no tick passed has come after a measurement, with a
\* previous timestamp that is not 0
C17_Witness ==
    /\ m_op = "pulse"
    /\ g_e = Zero32
    /\ last_ts_ticks # Zero32
    /\ last_interval_ticks # Zero32
    /\ count > 0

\* C18: for two pulses in a row, the timestamp of the first not 0, with e
\* ticks passed between them, 0 < e < 2^32, the interval computed is e, for
\* an up-counter and for a down-counter, also when the counter wraps
\* between the two.
C18_WrapSafeInterval ==
    [][(IsPulseStep /\ last_ts_ticks # Zero32 /\ g_e' # Zero32) =>
          last_interval_ticks' = g_e']_vars

\* an up-counter has wrapped between init and the first pulse (536 ticks
\* before the wrap, 500000 ticks later), or a down-counter has (at 1000,
\* 2400 ticks later)
C18_Witness ==
    /\ m_op = "pulse"
    /\ g_pulses = 1
    /\ \/ /\ count_up
          /\ counter = <<7, 40712>>
          /\ last_interval_ticks = <<7, 41248>>
       \/ /\ ~count_up
          /\ counter = <<65535, 64136>>
          /\ last_interval_ticks = <<0, 2400>>

\* C19: the value stored in scaled_bpm and returned by
\* midi1_clock_meas_cntr_get_sbpm lies in 0..65535, and once measured it is
\* MIDI1_SCALED_BPM_NUMERATOR divided by the averaged interval in
\* microseconds, rounded down.
C19_ScaledBpmIsU16 ==
    (m_op # "boot" /\ ~halted) =>
        /\ scaled_bpm[1] = 0
        /\ midi1_clock_meas_cntr_get_sbpm(MeasData)[1] = 0
        /\ valid =>
              LET x == ExactSum(g_win)
                  us == counter_ticks_to_us(clock_freq,
                                            Div32(<<x[2], x[3]>>, Len(g_win)))
              IN  x[1] = 0 /\ us # Zero32 /\ scaled_bpm = ScaledBpmOf(us)

\* C19 without the range: when the sum of the window fits in 32 bits and
\* the averaged interval is at least a microsecond, scaled_bpm is the
\* quotient
C19_ScaledBpmQuotient ==
    (m_op # "boot" /\ ~halted /\ valid) =>
        LET x == ExactSum(g_win)
            us == counter_ticks_to_us(clock_freq,
                                      Div32(<<x[2], x[3]>>, Len(g_win)))
        IN  (x[1] = 0 /\ us # Zero32) => scaled_bpm = ScaledBpmOf(us)

(***************************************************************************)
(* Properties of the PLL, checked under SpecPll.                           *)
(***************************************************************************)
\* C20 as stated: after midi1_pll_init and after every return of
\* midi1_pll_process_interval, internal_interval_ticks is
\* nominal_interval_ticks + filtered_error / gain, on the values the fields
\* have after the update.
C20_InternalIsNominalPlusCorrection ==
    p_op # "boot" =>
        internal_interval_ticks =
            AddI32(nominal_interval_ticks, TruncDiv(filtered_error, gain))

\* C20, amended: after midi1_pll_init and after every return of
\* midi1_pll_process_interval, internal_interval_ticks is
\* nominal_interval_ticks - filtered_error / tracking_g
\* + filtered_error / gain on the values the fields have after the update:
\* internal is nominal plus the correction for the nominal value before the
\* slow loop has added filtered_error / tracking_g to it.
C20_InternalIsOldNominalPlusCorrection ==
    p_op # "boot" =>
        internal_interval_ticks =
            AddI32(SubI32(nominal_interval_ticks,
                          TruncDiv(filtered_error, tracking_g)),
                   TruncDiv(filtered_error, gain))

\* an interval has been processed that moved nominal
C20_Witness ==
    /\ p_op = "process"
    /\ g_m # 0
    /\ TruncDiv(filtered_error, tracking_g) # 0
    /\ internal_interval_ticks #
           AddI32(nominal_interval_ticks, TruncDiv(filtered_error, gain))

(***************************************************************************)
(* Properties of a run of one interval, checked under SpecPllRun.          *)
(***************************************************************************)
\* The number an int32_t field holds and the number a uint32_t field
\* holds, as <<floor(x / 2^16), x mod 2^16>>; such pairs are ordered
\* lexicographically.
NumI32(a) == <<a \div Limb, a % Limb>>
NumU32(a) == <<(a \div Limb) % Limb, a % Limb>>

LeNum(p, q) == p[1] < q[1] \/ (p[1] = q[1] /\ p[2] <= q[2])

\* x lies between a and b, the ends included
BetweenNum(x, a, b) ==
    (LeNum(a, x) /\ LeNum(x, b)) \/ (LeNum(b, x) /\ LeNum(x, a))

\* the distance of two numbers
DistNum(p, q) ==
    LET lo == IF LeNum(p, q) THEN p ELSE q
        hi == IF LeNum(p, q) THEN q ELSE p
        b == IF hi[2] < lo[2] THEN 1 ELSE 0
    IN  <<hi[1] - lo[1] - b, (hi[2] - lo[2]) % Limb>>

\* C21 as stated: fed a constant interval M other than the initial nominal
\* value, the initialised PLL moves internal_interval_ticks monotonically
\* toward M (each update leaves it between its old value and M), and after
\* every update nominal_interval_ticks is no closer to M than
\* internal_interval_ticks is.
C21_StepResponse ==
    [][(p_op' = "process" /\ g_m' # 503000) =>
          /\ BetweenNum(NumI32(internal_interval_ticks'),
                        NumI32(internal_interval_ticks), NumU32(g_m'))
          /\ LeNum(DistNum(NumU32(g_m'), NumI32(internal_interval_ticks')),
                   DistNum(NumU32(g_m'), NumU32(nominal_interval_ticks')))
      ]_vars

DefaultGains ==
    /\ pll_k = MIDI1_PLL_FILTER_K
    /\ gain = MIDI1_PLL_GAIN_G
    /\ tracking_g = MIDI1_PLL_TRACK_GAIN

\* C21, amended: with the default gains 4, 4 and 32 and a constant interval
\* M below 2^31 other than the initial nominal value, each update leaves
\* internal_interval_ticks between its old value and M, and after every
\* update nominal_interval_ticks is no closer to M than
\* internal_interval_ticks is.
C21_StepResponseDefaultGains ==
    [][(p_op' = "process" /\ g_m' # 503000 /\ g_m' > 0 /\ DefaultGains) =>
          /\ BetweenNum(NumI32(internal_interval_ticks'),
                        NumI32(internal_interval_ticks), NumU32(g_m'))
          /\ LeNum(DistNum(NumU32(g_m'), NumI32(internal_interval_ticks')),
                   DistNum(NumU32(g_m'), NumU32(nominal_interval_ticks')))
      ]_vars

\* a run with the gains 8, 4 and 4 has taken internal_interval_ticks past
\* an interval below 2^31
C21_WitnessOvershoot ==
    /\ p_op = "process"
    /\ g_m = 504000
    /\ internal_interval_ticks > 504000

\* with the default gains the run has brought internal_interval_ticks more
\* than half of the way to the interval fed, and nominal_interval_ticks
\* lags behind it
C21_Witness ==
    /\ p_op = "process"
    /\ DefaultGains
    /\ g_m = 504000
    /\ internal_interval_ticks > 503500
    /\ nominal_interval_ticks < internal_interval_ticks

\* C22: after midi1_pll_init, any number of calls of
\* midi1_pll_process_interval with the initial nominal value 503000 leaves
\* nominal_interval_ticks, internal_interval_ticks and filtered_error as
\* midi1_pll_init set them.  (Under SpecPllRun every call of a run passes
\* the same interval.)
C22_SteadyState ==
    (p_op = "process" /\ g_m = 503000) =>
        /\ nominal_interval_ticks = 503000
        /\ internal_interval_ticks = 503000
        /\ filtered_error = 0

\* a hundred calls with the initial nominal value have been made
C22_Witness ==
    /\ p_op = "process"
    /\ g_m = 503000
    /\ g_steps >= 100

(***************************************************************************)
(* Properties of single PLL updates, checked under SpecPll.                *)
(***************************************************************************)
PllFields ==
    <<pll_k, gain, tracking_g, nominal_interval_ticks,
      internal_interval_ticks, filtered_error, pll_clock_freq>>

\* C23: midi1_pll_process_interval called with an interval of 0 changes no
\* field of the PLL data, whatever the state of the PLL.
C23_ZeroIntervalIgnored ==
    [][(p_op' = "process" /\ g_m' = 0) => UNCHANGED PllFields]_vars

\* an interval of 0 has been passed to a PLL that is off its steady state
C23_Witness ==
    /\ p_op = "process"
    /\ g_m = 0
    /\ filtered_error # 0
    /\ nominal_interval_ticks # 503000

(***************************************************************************)
(* Properties of the tempo model, checked under SpecModel.                 *)
(***************************************************************************)
\* the fields model_set takes an argument for
ArgFields ==
    {"hr_connected", "hr_bpm", "meas_sbpm", "pll_sbpm", "bpm_led_interval"}

\* C24: model_set overwrites a field only when the argument for it is
\* non-zero/true: while a thread is in a model_set that passes false for
\* hr_connected or 0 for hr_bpm, meas_sbpm, pll_sbpm or bpm_led_interval,
\* the stored value of that field does not change.
C24_ZeroKeepsField ==
    [][\A t \in Threads :
          th[t].op = "model_set" =>
             \A f \in ArgFields :
                th[t].args[f] = ZeroModel[f] => g_model'[f] = g_model[f]
      ]_vars

\* the part of C24 the code keeps: the same for the four numeric fields
C24_ZeroKeepsNumericField ==
    [][\A t \in Threads :
          th[t].op = "model_set" =>
             \A f \in ArgFields \ {"hr_connected"} :
                th[t].args[f] = 0 => g_model'[f] = g_model[f]
      ]_vars

\* C25: under every interleaving of model_set, model_set_led_status and
\* model_get of different threads, a thread is inside a model function only
\* while it holds the lock (so no thread writes the model while another
\* holds the lock), and the snapshot model_get has copied is the model as
\* it stands with no set operation under way: no torn read.
C25_NoTornRead ==
    \A t \in Threads :
       /\ th[t].pc > 0 => g_model_lock = t
       /\ (th[t].op = "model_get" /\ th[t].pc > Len(ModelFields)) =>
             /\ get_out = g_model
             /\ \A u \in Threads \ {t} : th[u].pc = 0

\* model_get has copied a model that both producers have written to
C25_Witness ==
    /\ th["ui"].op = "model_get"
    /\ th["ui"].pc > Len(ModelFields)
    /\ get_out.hr_connected
    /\ get_out.hr_bpm = 61
    /\ get_out.meas_sbpm = 12000
    /\ get_out.bpm_led_status = LED_OFF

(***************************************************************************)
(* Properties of the byte queue, checked under SpecQueue.                  *)
(***************************************************************************)
RECURSIVE IsSubseq(_, _)
\* the sequence a is the sequence b with some elements left out
IsSubseq(a, b) ==
    IF a = << >> THEN TRUE
    ELSE IF b = << >> THEN FALSE
    ELSE IF Head(a) = Head(b) THEN IsSubseq(Tail(a), Tail(b))
    ELSE IsSubseq(a, Tail(b))

\* the first n elements of the sequence q, or all of it
Take(q, n) == SubSeq(q, 1, IF n < Len(q) THEN n ELSE Len(q))

\* C26: the ISR never waits (it can run in every state, the queue full or
\* not); of the bytes it reads, those the queue has room for are appended
\* in order and the others are dropped with the queued bytes unchanged;
\* and the bytes the parser has consumed, followed by the bytes queued, are
\* a subsequence of the bytes received, so the consumed bytes are the
\* received ones in arrival order without duplication or reordering.
C26_ByteQueue ==
    /\ [](/\ IsSubseq(g_consumed \o msgq, g_received)
          /\ Len(msgq) <= MsgqSize
          /\ Len(g_received) + 2 <= MaxReceived =>
                ENABLED midi1_serial_isr_callback)
    /\ [][g_received' # g_received =>
            LET bytes == SubSeq(g_received', Len(g_received) + 1,
                                Len(g_received'))
            IN  /\ msgq' = msgq \o Take(bytes, MsgqSize - Len(msgq))
                /\ g_consumed' = g_consumed]_vars
    /\ [][g_consumed' # g_consumed =>
            /\ g_consumed' = Append(g_consumed, Head(msgq))
            /\ msgq' = Tail(msgq)
            /\ lastc' = Head(msgq)]_vars

\* a byte has been dropped at a full queue and the parser has consumed
\* bytes that came before and after it
C26_Witness ==
    /\ Len(g_consumed) >= 3
    /\ Len(g_received) > Len(g_consumed) + Len(msgq)
    /\ Len(msgq) = MsgqSize

(***************************************************************************)
(* Properties of realtime_handler, checked under SpecHandler.              *)
(***************************************************************************)
\* the pulse that reads now from the counter gives the measurer a new
\* non-zero interval: it is not the first pulse and ticks have elapsed
PulseAccepted(now) ==
    /\ last_ts_ticks # Zero32
    /\ IntervalTicks(count_up, last_ts_ticks, now) # Zero32

\* C27: for every timing-clock byte realtime_handler handles, the PLL is
\* updated (with the interval of this pulse) if the measurer accepted a
\* new non-zero interval for the pulse, and the PLL state is unchanged if
\* the pulse was rejected as the first pulse or for zero elapsed ticks.
C27_AnomaliesKeptFromPll ==
    [][(g_pulses' # g_pulses /\ ~halted') =>
          IF PulseAccepted(counter')
          THEN PllFields' =
                 LET r == midi1_pll_process_interval(
                             PllData,
                             ToI32(IntervalTicks(count_up, last_ts_ticks,
                                                 counter')))
                 IN  <<r.k, r.gain, r.tracking_g, r.nominal_interval_ticks,
                       r.internal_interval_ticks, r.filtered_error,
                       r.clock_freq>>
          ELSE UNCHANGED PllFields]_vars

(***************************************************************************)
(* More properties of the receive parser, checked under Spec.              *)
(***************************************************************************)
\* C28: a Tune Request status byte (0xF6) fed to the parser emits an event
\* at once, with no further byte.
C28_TuneRequestEmits ==
    [][lastc' = SYSTEM_TUNE_REQUEST => ev' # << >>]_vars

VoiceEvents ==
    {"note_on", "note_off", "control_change", "pitchwheel",
     "program_change", "channel_aftertouch", "poly_aftertouch"}

\* the most recent non-realtime status byte is one of 0xF1..0xF7
AfterSystemCommon == h_status > SYSTEM_EXCLUSIVE_START /\ h_status < 248

\* C29 as stated: once a status byte in 0xF1..0xF7 has been consumed and
\* until a channel-voice status byte arrives, a data byte invokes no
\* handler, running_status_rx is 0 once a data byte has followed, and no
\* channel-voice event is emitted.
C29_CancelsUntilVoiceStatus ==
    /\ [](h_common =>
            /\ h_n >= 1 => running_status_rx = 0
            /\ \A i \in 1..Len(ev) : ev[i][1] \notin VoiceEvents)
    /\ [][(h_common' /\ lastc' < CHANNEL_VOICE_MASK) => ev' = << >>]_vars

\* C29, amended: once a status byte in 0xF1..0xF7 has been consumed and
\* until a channel-voice status byte or a sysex start (0xF0) arrives, a
\* data byte invokes no handler, running_status_rx is 0 from the first
\* such data byte on, and no channel-voice event is emitted.
C29_SystemCommonCancels ==
    /\ [](AfterSystemCommon =>
            /\ h_n >= 1 => running_status_rx = 0
            /\ \A i \in 1..Len(ev) : ev[i][1] \notin VoiceEvents)
    /\ [][(AfterSystemCommon' /\ lastc' < CHANNEL_VOICE_MASK) =>
             ev' = << >>]_vars

\* two data bytes have followed a song-position status (0xF2)
C29_Witness ==
    /\ h_status = 242
    /\ h_n >= 2
    /\ lastc < CHANNEL_VOICE_MASK
    /\ running_status_rx = 0

\* a data byte has followed 0xF1 that came in the middle of a note-on
C29_WitnessOther ==
    /\ h_status = 241
    /\ h_n = 1
    /\ lastc < CHANNEL_VOICE_MASK
    /\ midi_c2 # 0

(***************************************************************************)
(* The arithmetic of one PLL update, checked under SpecPll.                *)
(***************************************************************************)
\* q is a / d with the quotient truncated toward zero: the remainder
\* a - q * d is smaller than d and has the sign of a
IsTruncQuot(q, a, d) ==
    LET r == a - q * d
    IN  IF a >= 0 THEN 0 <= r /\ r < d ELSE 0 - d < r /\ r <= 0

\* C30: one call midi1_pll_process_interval(m) with m # 0 computes, with
\* every division truncating toward zero: error = m - internal;
\* filtered_error' = filtered_error + (error - filtered_error) / k;
\* internal' = nominal + filtered_error' / gain;
\* nominal' = nominal + filtered_error' / tracking_g, where internal' is
\* taken from the nominal value before the update (32-bit arithmetic).
C30_UpdateArithmetic ==
    [][(p_op' = "process" /\ g_m' # 0) =>
          LET error == SubI32(g_m', internal_interval_ticks)
          IN  /\ IsTruncQuot(SubI32(filtered_error', filtered_error),
                             SubI32(error, filtered_error), pll_k)
              /\ IsTruncQuot(SubI32(internal_interval_ticks',
                                    nominal_interval_ticks),
                             filtered_error', gain)
              /\ IsTruncQuot(SubI32(nominal_interval_ticks',
                                    nominal_interval_ticks),
                             filtered_error', tracking_g)
              /\ UNCHANGED <<pll_k, gain, tracking_g, pll_clock_freq>>
      ]_vars

\* an update has left a negative filtered_error that neither gain divides
C30_Witness ==
    /\ p_op = "process"
    /\ g_m # 0
    /\ filtered_error < 0
    /\ filtered_error % gain # 0
    /\ filtered_error % tracking_g # 0
    /\ nominal_interval_ticks # 503000

(***************************************************************************)
(* A status byte that cuts a message short, checked under Spec.            *)
(***************************************************************************)
\* a non-realtime status byte is consumed while a first data byte is pending
\* or a sysex stream is open
CutsPartial ==
    /\ lastc' \in CHANNEL_VOICE_MASK..(SYSTEM_REALTIME_MASK - 1)
    /\ (third_byte_flag = 1 \/ in_sysex)

\* every data byte an event carries was consumed after the most recent
\* non-realtime status byte
FreshData ==
    \A i \in 1..Len(ev) :
        /\ ev[i][1] = "sysex_data" => (h_n >= 1 /\ ev[i][2] = lastc)
        /\ (ev[i][1] \in VoiceCallbacks /\ Len(ev[i]) = 4) =>
              (h_n >= 2 /\ <<ev[i][3], ev[i][4]>> = h_data)
        /\ (ev[i][1] \in VoiceCallbacks /\ Len(ev[i]) = 3) =>
              (h_n >= 1 /\ ev[i][3] = h_data[Len(h_data)])

\* C31: a non-realtime status byte that arrives while third_byte_flag == 1 or
\* inside sysex clears third_byte_flag and in_sysex and becomes
\* running_status_rx, and no event emitted afterwards carries a data byte
\* that was received before that status byte.
C31_StatusDiscardsPartial ==
    /\ [][CutsPartial =>
             /\ third_byte_flag' = 0
             /\ ~in_sysex'
             /\ running_status_rx' = lastc']_vars
    /\ [](h_cut => FreshData)

\* C31, with in_sysex set again when the status byte is 0xF0, which opens a
\* new sysex stream.
C31_StatusDiscardsPartialButSysexStart ==
    /\ [][CutsPartial =>
             /\ third_byte_flag' = 0
             /\ in_sysex' = (lastc' = SYSTEM_EXCLUSIVE_START)
             /\ running_status_rx' = lastc']_vars
    /\ [](h_cut => FreshData)

\* a complete message has been delivered after a status byte cut one short
C31_Witness ==
    /\ h_cut
    /\ h_status \in 128..143
    /\ h_n = 2
    /\ Len(ev) = 1
    /\ ev[1][1] = "note_off"

\* a sysex data byte has been delivered after 0xF0 cut a message short
C31_WitnessSysex ==
    /\ h_cut
    /\ h_status = SYSTEM_EXCLUSIVE_START
    /\ Len(ev) = 1
    /\ ev[1][1] = "sysex_data"


(***************************************************************************)
(* The first message after midi1_serial_init, checked under SpecTxInit.    *)
(***************************************************************************)
\* C32: the first channel-voice message transmitted after midi1_serial_init
\* starts with its status byte, for every message kind and channel, whatever
\* the uptime is at init and at the call.
C32_FirstSendHasStatus ==
    [][(g_prev = 0 /\ IsSend(call') /\ tx' # << >>) =>
          tx' = <<ReqStatus(call')>> \o DataOf(call')]_vars

\* a first message has been sent 2^32 - 300 ms after the init at boot, when
\* the 32-bit uptime is 200 ms past the time the init wrote to
\* last_status_tx_time
C32_Witness ==
    /\ g_pos = 1
    /\ WroteStatus
    /\ uptime = AddTime(<<0, 0, BootTime>>, <<0, 65535, 65236>>)
    /\ g_adv = 1

\* a first message has been sent after an init made when the 32-bit uptime
\* had wrapped
C32_WitnessWrapped ==
    /\ g_pos = 1
    /\ WroteStatus
    /\ uptime[1] = 1
    /\ g_statusAt = uptime
    /\ call.fn = "pitchwheel"
    /\ call.channel = 17


(***************************************************************************)
(* The transmitter wired back to the receive parser, checked under         *)
(* SpecLoop.                                                               *)
(***************************************************************************)
\* C33: for any sequence of in-range note_on (velocity 1..127), note_off,
\* control_change and pitchwheel calls, at any times and with realtime sends
\* between them, the parser fed the bytes written invokes for each call
\* exactly the one corresponding handler, with the same channel and data
\* bytes, and it does so with the last byte of the call, whether or not the
\* status byte was written.
C33_RoundTrip ==
    /\ wire # << >> => g_got = << >>
    /\ wire = << >> => g_got = g_want

\* a pitchwheel message sent without its status byte has come out of the
\* parser
C33_Witness ==
    /\ wire = << >>
    /\ call.fn = "pitchwheel"
    /\ call.a = 16383
    /\ call.channel = 15
    /\ Len(tx) = 2
    /\ g_got = << <<"pitchwheel", 15, 127, 127>> >>

\* a realtime byte has come out between two messages of one status, the
\* second sent without its status byte
C33_WitnessRealtime ==
    /\ wire = <<127>>
    /\ call.fn = "note_on"
    /\ Len(tx) = 2
    /\ h_n = 3
    /\ running_status_tx_count = 2


(***************************************************************************)
(* System-exclusive sends and the TX running status, checked under         *)
(* SpecLoopSysex.                                                          *)
(***************************************************************************)
\* C34: a channel-voice send that follows a call of midi1_sysex_start,
\* midi1_sysex_char or midi1_sysex_stop writes its status byte first, also
\* when the status equals running_status_tx within the timeout and the run
\* length, and the receive parser fed the bytes invokes the handler of the
\* message.
C34_SysexCancelsTxRunningStatus ==
    /\ [][(call.fn \in SysexSenders /\ IsSend(call') /\ tx' # << >>) =>
             tx'[1] = ReqStatus(call')]_vars
    /\ []((IsSend(call) /\ wire = << >>) => g_got = <<HandlerOf(call)>>)


(***************************************************************************)
(* The pulses after the first, checked under SpecMeas.                     *)
(***************************************************************************)
\* C35: once a pulse has recorded its timestamp, every later pulse with
\* non-zero elapsed ticks and a non-zero interval in microseconds writes the
\* elapsed ticks to last_interval_ticks and adds one sample to the block
\* averager, whatever the counter read at the previous pulse, 0 included.
C35_OnlyFirstPulseIsFirst ==
    [][(m_op = "pulse" /\ IsPulseStep /\ g_e' # Zero32
            /\ counter_ticks_to_us(clock_freq, g_e') # Zero32) =>
          (last_interval_ticks' = g_e' /\ g_n' = g_n + 1)]_vars


\* C36: the BPM computation of midi1_clock_meas_cntr_pulse never divides by
\* zero: whenever the block averager is full, the averaged interval in
\* microseconds, by which the pulse that filled or refreshed it has divided,
\* is at least 1.
C36_NoDivisionByZero ==
    /\ ~halted
    /\ count = MIDI1_BLOCKAVG_SIZE =>
          counter_ticks_to_us(clock_freq, midi1_blockavg_average(BlkAvg))
              # Zero32


(***************************************************************************)
(* Convergence of the PLL on a constant interval, checked under            *)
(* SpecPllRunLive.                                                         *)
(***************************************************************************)
\* a run of an interval M, 0 < M < 2^31, with the default gains
DefaultRun == p_op = "process" /\ DefaultGains /\ g_m > 0

\* an update with the interval of the run leaves the PLL as it is, and
\* |filtered_error| < tracking_g and |M - nominal_interval_ticks| <= 41
PllSettled ==
    /\ midi1_pll_process_interval(PllData, g_m) = PllData
    /\ filtered_error < tracking_g
    /\ filtered_error > 0 - tracking_g
    /\ LeNum(DistNum(NumI32(g_m), NumI32(nominal_interval_ticks)), <<0, 41>>)

\* C37: fed the same interval M (0 < M < 2^31) again and again, the
\* initialised PLL with the default gains 4/4/32 eventually reaches a state
\* that further updates with M leave unchanged, with |filtered_error| <
\* tracking_g and |M - nominal_interval_ticks| <= 41 in it.
C37_Convergence ==
    /\ DefaultRun ~> (DefaultRun /\ PllSettled)
    /\ [][(DefaultRun /\ PllSettled /\ p_op' = "process") =>
             (UNCHANGED PllFields /\ PllSettled')]_vars

\* the run of 400000 has settled 35 ticks from it with a filtered error of
\* -31
C37_Witness ==
    /\ DefaultRun
    /\ PllSettled
    /\ g_m = 400000
    /\ nominal_interval_ticks = 400035
    /\ filtered_error = -31

\* C38: after every byte the parser has consumed, in_sysex implies that
\* running_status_rx is 0xF0 and third_byte_flag is 0, and third_byte_flag
\* = 1 implies that running_status_rx is 0 or the status of a message with
\* two data bytes (0x80-0xBF or 0xE0-0xEF).
C38_ParserInvariant ==
    /\ in_sysex =>
         running_status_rx = SYSTEM_EXCLUSIVE_START /\ third_byte_flag = 0
    /\ third_byte_flag = 1 =>
         running_status_rx = 0 \/ ThreeByteStatus(running_status_rx)

\* the first data byte after a song position pointer is pending: the flag
\* is set and the running status has been given up
C38_Witness ==
    /\ third_byte_flag = 1
    /\ running_status_rx = 0
    /\ h_status = 242
    /\ lastc < CHANNEL_VOICE_MASK

\* a data byte and then a realtime byte consumed inside a sysex stream
C38_WitnessSysex ==
    /\ in_sysex
    /\ h_n > 0
    /\ lastc >= SYSTEM_REALTIME_MASK

\* the status byte of the channel-voice message the call sends: the kind
\* of its message with the low four bits of its channel argument
C39_Status ==
    Or8(IF call.fn = "modwheel" THEN C_CONTROL_CHANGE ELSE KindByte(call.fn),
        And8(call.channel, 15))

\* the number of data bytes of the message the call sends
C39_DataLen == IF call.fn = "channelaftertouch" THEN 1 ELSE 2

\* s is a sequence of messages of n data bytes each, every one with the
\* status byte st or without a status byte, and every data byte below 128
RECURSIVE WellFormedStream(_, _, _)
WellFormedStream(s, st, n) ==
    IF s = << >> THEN TRUE
    ELSE LET body == IF s[1] >= 128 THEN Tail(s) ELSE s
         IN  /\ s[1] >= 128 => s[1] = st
             /\ Len(body) >= n
             /\ \A i \in 1..n : body[i] < 128
             /\ WellFormedStream(SubSeq(body, n + 1, Len(body)), st, n)

\* C39: for all argument values, a status byte written by a channel-voice
\* send is the kind of the message or-ed with channel & 0x0F, every byte
\* written as message data has bit 7 clear, and so has every byte written
\* by midi1_sysex_char.
C39_TxWellFormed ==
    /\ call.fn \in {"note_on", "note_off", "control_change",
                    "channelaftertouch", "pitchwheel", "modwheel"} =>
         WellFormedStream(tx, C39_Status, C39_DataLen)
    /\ call.fn = "sysex_char" => \A i \in 1..Len(tx) : tx[i] < 128

\* the mod wheel sent with channel 17 and the value 0xFFFF: one status byte
\* 0xB1 and two controller messages with the data 127
C39_Witness ==
    /\ call = [fn |-> "modwheel", channel |-> 17, a |-> 65535, b |-> 0]
    /\ tx = <<177, CTL_MSB_MODWHEEL, 127, CTL_LSB_MODWHEEL, 127>>

\* midi1_sysex_char has written a byte
C39_WitnessSysex == call.fn = "sysex_char" /\ tx = <<127>>

\* the pitch wheel with PITCHWHEEL_MAX: both data bytes are 0
C39_WitnessWheel ==
    /\ call.fn = "pitchwheel" /\ call.a = PITCHWHEEL_MAX
    /\ Len(tx) >= 2 /\ tx[Len(tx)] = 0 /\ tx[Len(tx) - 1] = 0

\* C40: after midi1_serial_init and any sequence of calls of
\* midi1_serial_register_callbacks, with the null pointer or with tables
\* of which members are NULL, every member of the driver's callback table
\* is a handler, and so is every member the receive parser has called.
C40_NoNullHandler ==
    /\ \A m \in CbMembers : cb[m] # NULL
    /\ \A i \in 1..Len(ev) : cb[ev[i][1]] # NULL

\* a table with note_on alone has been registered, then the null pointer
\* has been refused, and the parser has called the sysex_data member, which
\* is still the no-op of midi1_serial_init
C40_Witness ==
    /\ cb_ret = 0 - EINVAL
    /\ cb.note_on = APP
    /\ cb.sysex_data = NOOP
    /\ Len(ev) = 1 /\ ev[1][1] = "sysex_data"

\* a table without sysex_stop registered over a table with sysex_stop alone
C40_WitnessPartial ==
    /\ cb_ret = 0
    /\ cb.sysex_stop = APP
    /\ \A m \in CbMembers \ {"sysex_stop"} : cb[m] = APP2

====
